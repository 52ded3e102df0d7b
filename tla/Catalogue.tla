------------------------------ MODULE Catalogue ------------------------------
(***************************************************************************)
(* The catalogue as a client sees it: statements that read sys.*,          *)
(* INFORMATION_SCHEMA.*, the catalogue functions or the sp_* procedures,   *)
(* each over what the schema cache was told while it ran.                  *)
(*                                                                         *)
(* An ask is a record [by, what, db, args]: by is "sys", "info", "fn" or   *)
(* "proc", what the view or procedure, db the database as written ("" for  *)
(* none), args the arguments of a procedure.                               *)
(***************************************************************************)
EXTENDS SchemaCache, CatalogueProcs

CONSTANTS
  Current,      \* the session's database
  Caller,       \* its principal [user, roles]
  Live,         \* the sessions it may see
  Order,        \* the databases in the order the backend lists them
  Holds,        \* what the tables of a database may be |-> the tables and table types
  Stores        \* what its routines may be |-> the routines

(* ---- which part of the catalogue an ask needs ---- *)
RuntimeDmvs == {"dm_exec_sessions", "dm_exec_connections", "dm_exec_requests",
                "dm_exec_query_stats", "dm_os_waiting_tasks", "dm_os_host_info"}

Req(x, s, r, n, soft) == [of |-> x, schema |-> s, routines |-> r, names |-> n, soft |-> soft]

Scope(x) == IF x.db = "" THEN Current ELSE x.db

ViewReqs(x) ==
  CASE x.by = "sys" /\ x.what = "databases"    -> <<Req(x, NoKey, NoKey, TRUE, FALSE)>>
    [] x.by = "sys" /\ x.what \in RuntimeDmvs  -> <<Req(x, NoKey, NoKey, FALSE, FALSE)>>
    [] OTHER                                   -> <<Req(x, Scope(x), Scope(x), FALSE, FALSE)>>

(* the functions look in the database the FROM clause names, all of them when it names none, *)
(* for the tables, and in the session's for the routines                                     *)
FunctionReqs(x) == <<Req(x, x.db, Current, FALSE, TRUE)>>

ProcReqs(x) ==
  LET q(name, pos) == DefaultQualifier(Word(Arg(x.args, name, pos)), Current)
      schema(k) == <<Req(x, k, NoKey, FALSE, FALSE)>>
      rts(k)    == <<Req(x, NoKey, k, FALSE, FALSE)>>
      none      == <<Req(x, NoKey, NoKey, FALSE, FALSE)>>
  IN CASE x.what \in {"sp_databases", "sp_helpdb"} -> schema("")
       [] x.what \in {"sp_tables", "sp_columns"} ->
            IF IsSystemDb(q("@table_qualifier", 2)) THEN none ELSE schema(q("@table_qualifier", 2))
       [] x.what \in {"sp_pkeys", "sp_statistics", "sp_special_columns"} ->
            IF Arg(x.args, "@table_name", 0) = <<>> THEN none ELSE schema(q("@table_qualifier", 2))
       [] x.what = "sp_fkeys" -> schema(q("@fktable_qualifier", 5))
       [] x.what \in {"sp_helpindex", "sp_helpconstraint"} ->
            IF Arg(x.args, "@objname", 0) = <<>> THEN none ELSE schema(Current)
       [] x.what \in {"sp_stored_procedures", "sp_sproc_columns"} -> rts(q("@procedure_qualifier", 2))
       [] x.what \in {"sp_helptext", "sp_helptrigger", "sp_depends"} -> rts(Current)
       [] x.what = "sp_help" /\ Arg(x.args, "@objname", 0) # <<>> ->     \* GetRoutine, then the tables
            <<Req(x, NoKey, Current, FALSE, TRUE), Req(x, Current, NoKey, FALSE, TRUE)>>
       [] x.what = "sp_help" -> <<Req(x, Current, NoKey, FALSE, TRUE), Req(x, NoKey, Current, FALSE, TRUE)>>
       [] OTHER -> none

ReqsOf(x) ==
  CASE x.by = "proc" -> ProcReqs(x)
    [] x.by = "fn"   -> FunctionReqs(x)
    [] OTHER         -> ViewReqs(x)

(* execProc comes before the cache is made, so a procedure runs without *)
PlanOf(asks) ==
  LET reqs == FlattenSeq([i \in DOMAIN asks |-> ReqsOf(asks[i])])
  IN [cached |-> \A i \in DOMAIN asks : asks[i].by # "proc", reqs |-> SubSeq(reqs, 1, Len(reqs))]

ASSUME CatalogueAssumption ==
  /\ Dbs \subseteq STRING /\ Order \in Seq(Dbs)
  /\ Holds \in [Schemas -> [tables : Seq(TableDefs), types : Seq(Name)]]
  /\ Stores \in [RoutineSets -> Seq(RoutineDefs)]
  /\ \A r \in Requests : r \in ToSet(ReqsOf(r.of))     \* the plans are of asks

(* ---- the description an answer is ---- *)
Tagged(db, ts) == [i \in DOMAIN ts |-> [ts[i] EXCEPT !.catalog = db]]

TablesTold(s) ==          \* with databases, each table carries the name of its own
  IF multi THEN FlattenSeq([i \in DOMAIN Order |->
                  IF s[Order[i]] = Absent THEN <<>> ELSE Tagged(Order[i], Holds[s[Order[i]]].tables)])
  ELSE IF s[Only] = Absent THEN <<>> ELSE Holds[s[Only]].tables

TypesTold(s) == IF multi \/ s[Only] = Absent THEN <<>> ELSE Holds[s[Only]].types

Description(a) ==
  [tables |-> TablesTold(a.schema), types |-> TypesTold(a.schema), rts |-> Stores[a.routines],
   dbs |-> SelectSeq(Order, LAMBDA n : n \in a.names), who |-> Caller, live |-> Live]

Rows(x, d) ==
  CASE x.by = "sys"  -> SysRows(x.what, d)
    [] x.by = "info" -> InfoRows(x.what, d)
    [] x.by = "proc" -> ProcRows(x.what, x.args, Current, d)
    [] OTHER         -> {}

(***************************************************************************)
(* Properties                                                              *)
(***************************************************************************)
Column(rows, c) == {r[c] : r \in rows}

Join(rows, on, others, to) ==      \* each row's columns on are the columns to of another row
  \A r \in rows : \E o \in others : \A i \in DOMAIN on : r[on[i]] = o[to[i]]

(* The references the views keep, by the view and the columns they lead to. *)
(* Two they publish and do not keep are not among them: the constraint of a *)
(* foreign_key_columns row, oid(name) there (sysviews.go:486) and a count   *)
(* from 200 in foreign_keys (:361), though :893 has one scheme for both;    *)
(* and the index of a heap's row of partitions, 1 there and 0 in indexes.   *)
None == <<<<>>, <<>>>>

SysReferences(v, w) ==
  CASE <<v, w>> = <<"columns", "objects">>              -> <<<<"object_id">>, <<"object_id">>>>
    [] <<v, w>> = <<"columns", "types">>                -> <<<<"user_type_id">>, <<"user_type_id">>>>
    [] <<v, w>> = <<"indexes", "tables">>               -> <<<<"object_id">>, <<"object_id">>>>
    [] <<v, w>> = <<"index_columns", "indexes">>        -> <<<<"object_id", "index_id">>, <<"object_id", "index_id">>>>
    [] <<v, w>> = <<"index_columns", "columns">>        -> <<<<"object_id", "column_id">>, <<"object_id", "column_id">>>>
    [] <<v, w>> = <<"key_constraints", "indexes">>      ->
         <<<<"parent_object_id", "unique_index_id">>, <<"object_id", "index_id">>>>
    [] <<v, w>> = <<"foreign_key_columns", "columns">>  ->
         <<<<"parent_object_id", "parent_column_id">>, <<"object_id", "column_id">>>>
    [] <<v, w>> = <<"foreign_keys", "tables">>          -> <<<<"referenced_object_id">>, <<"object_id">>>>
    [] <<v, w>> = <<"default_constraints", "columns">>  ->
         <<<<"parent_object_id", "parent_column_id">>, <<"object_id", "column_id">>>>
    [] <<v, w>> = <<"sql_modules", "objects">>          -> <<<<"object_id">>, <<"object_id">>>>
    [] <<v, w>> = <<"parameters", "objects">>           -> <<<<"object_id">>, <<"object_id">>>>
    [] <<v, w>> = <<"sql_expression_dependencies", "objects">> -> <<<<"referenced_id">>, <<"object_id">>>>
    [] OTHER -> None

InfoReferences(v, w) ==
  CASE <<v, w>> = <<"KEY_COLUMN_USAGE", "TABLE_CONSTRAINTS">> -> <<<<"CONSTRAINT_NAME">>, <<"CONSTRAINT_NAME">>>>
    [] <<v, w>> = <<"REFERENTIAL_CONSTRAINTS", "TABLE_CONSTRAINTS">> ->
         <<<<"UNIQUE_CONSTRAINT_NAME">>, <<"CONSTRAINT_NAME">>>>
    [] <<v, w>> = <<"VIEW_COLUMN_USAGE", "COLUMNS">>    ->
         <<<<"TABLE_NAME", "COLUMN_NAME">>, <<"TABLE_NAME", "COLUMN_NAME">>>>
    [] OTHER -> None

References(x, y) ==
  CASE x.by = "sys" /\ y.by = "sys"   -> SysReferences(x.what, y.what)
    [] x.by = "info" /\ y.by = "info" -> InfoReferences(x.what, y.what)
    [] OTHER                          -> None

Ended == pc = "next" /\ todo = <<>>

Told == {a \in answers : a.ok /\ a.req.schema \in Keys}   \* the descriptions of tables

(* indexes numbered alike by place and by kind: the clustered one is first, and a heap has none *)
NumberedAlike(t) == \A i \in DOMAIN TableIndexes(t) : TableIndexes(t)[i].clustered <=> i = 1

HasColumn(t, c) == \E i \in DOMAIN t.columns : Lc(t.columns[i].name) = Lc(c)

(* the types sys.columns has a number for and sys.types no row *)
Unlisted == {"money", "smallmoney", "text", "ntext", "xml"}

(* what a backend that keeps its own references declares: indexes and keys are of columns *)
(* that are there, keys refer to a table that is                                          *)
WellKept(d) ==
  /\ \A t \in Tables(d) :
       /\ NumberedAlike(t)
       /\ \A ix \in ToSet(TableIndexes(t)) : \A c \in ToSet(ix.cols) : HasColumn(t, c)
       /\ \A fk \in ToSet(t.fks) : /\ \A c \in ToSet(fk.cols) : HasColumn(t, c)
                                   /\ \E u \in Tables(d) : u.name = fk.ref /\ u.key # <<>>
       /\ \A c \in ToSet(t.columns) : c.type.decl \notin Unlisted
  /\ \A r \in Routines(d, {"view"}) : \A n \in ReferencedNames(r) : n \in {o.name : o \in ObjectsRows(d)}

(* each of these references of a row leads to a row of the other view when *)
(* one query joins the two, although it asked the backend for them at      *)
(* different times (sysviews.go, infoschema.go, schemacache.go): the ids,  *)
(* index numbers and column numbers on its two sides agree                 *)
ReferencesJoin ==
  Ended /\ plan.cached => \A a, b \in Told :
    LET d == Description(a)
        on == References(a.req.of, b.req.of)
    IN a.req.schema = b.req.schema /\ on[1] # <<>> /\ WellKept(d) =>
         Join(Rows(a.req.of, d), on[1], Rows(b.req.of, Description(b)), on[2])

Pick(rows, cs) == {[c \in cs |-> r[c]] : r \in rows}

(* the procedures, the views and the functions say the same of a table: its key, *)
OfTable(rows, n) == {r \in rows : r.TABLE_NAME = n}

KeysAlike(d, t) ==
  LET n == t.name IN
  /\ {<<r.COLUMN_NAME, r.KEY_SEQ>> : r \in SpPkeys(d, Current, n)} =
     {<<r.COLUMN_NAME, r.ORDINAL_POSITION>> :
        r \in {x \in OfTable(KeyColumnUsageRows(d), n) : x.CONSTRAINT_NAME = PkName(n)}}
  /\ {r.COLUMN_NAME : r \in SpSpecialColumns(d, n)} = {r.COLUMN_NAME : r \in SpPkeys(d, Current, n)}
  /\ ObjectProperty(d, ObjectId(n), "TableHasPrimaryKey") <=> SpPkeys(d, Current, n) # {}

(* its columns, *)
ColumnsAlike(d, t) ==
  LET n  == t.name
      id == ObjectId(n)
      cs == {"COLUMN_NAME", "ORDINAL_POSITION", "IS_NULLABLE"}
  IN /\ Pick(SpColumns(d, Current, n, <<>>), cs) = Pick(OfTable(InfoColumnsRows(d), n), cs)
     /\ {<<r.COLUMN_NAME, r.TYPE_NAME>> : r \in SpColumns(d, Current, n, <<>>)} =
        {<<r.COLUMN_NAME, r.DATA_TYPE>> : r \in OfTable(InfoColumnsRows(d), n)}
     /\ \A r \in {x \in ColumnsRows(d) : x.object_id = id} :
          /\ ColName(d, id, r.column_id) = {r.name}
          /\ ColumnProperty(d, id, r.name, "AllowsNull") = {r.is_nullable}

(* its indexes, *)
IndexesAlike(d, t) ==
  LET n  == t.name
      id == ObjectId(n)
      numbers == {<<r.index_id, r.name>> : r \in {x \in IndexesRows(d) : x.object_id = id}}
  IN /\ {<<r.INDEX_NAME, r.SEQ_IN_INDEX, r.COLUMN_NAME>> : r \in SpStatistics(d, Current, n)} =
        UNION {{<<p[1][2], p[2].key_ordinal, c>> : c \in ColName(d, id, p[2].column_id)} :
                 p \in {q \in numbers \X IndexColumnsRows(d) : q[2].object_id = id /\ q[2].index_id = q[1][1]}}
     /\ {r.index_name : r \in SpHelpindex(d, n)} = {r.INDEX_NAME : r \in SpStatistics(d, Current, n)}

(* its constraints *)
ConstraintsAlike(d, t) ==
  LET n  == t.name
      id == ObjectId(n)
  IN /\ {r.FKCOLUMN_NAME : r \in SpFkeys(d, <<>>, n)} =
        UNION {ColName(d, id, r.parent_column_id) :
                 r \in {x \in ForeignKeyColumnsRows(d) : x.parent_object_id = id}}
     /\ {r.constraint_name : r \in {x \in SpHelpconstraint(d, n) : x.constraint_type \in {"PRIMARY KEY", "FOREIGN KEY"}}} =
        {r.CONSTRAINT_NAME : r \in OfTable(TableConstraintsRows(d), n)}

(* and that it is one *)
KindAlike(d, t) ==
  LET id == ObjectId(t.name) IN
  /\ ObjectName(d, id) = t.name /\ ObjectKind(d, id) = "U"
  /\ SpHelp(d, t.name) = {[Name |-> t.name, Type |-> "user table"]}

ReportTheSame(d, t) ==
  KeysAlike(d, t) /\ ColumnsAlike(d, t) /\ IndexesAlike(d, t) /\ ConstraintsAlike(d, t) /\ KindAlike(d, t)

(* and of a routine *)
ReportTheSameRoutine(d, r) ==
  LET id == ObjectId(r.name) IN
  /\ ObjectName(d, id) = r.name /\ ObjectKind(d, id) = RoutineTypeCodes[r.kind]
  /\ SpHelptext(d, r.name) = ObjectDefinition(d, id)
  /\ SpHelptext(d, r.name) = {m.definition : m \in {x \in SqlModulesRows(d) : x.object_id = id}}
  /\ {p.COLUMN_NAME : p \in SpSprocColumns(d, r.name)} =
     {p.name : p \in {x \in ParametersRows(d) : x.object_id = id}}
  /\ r.kind = "view" => {x.name : x \in SpDepends(d, r.name)} =
     {x.referenced_entity_name : x \in {y \in DependenciesRows(d) : y.referencing_id = id}}
  /\ r.kind = "trigger" => [trigger_name |-> r.name] \in SpHelptrigger(d, r.on)
  /\ r.kind \in {"proc", "func"} <=> \E x \in SpStoredProcedures(d, r.name) : x.PROCEDURE_NAME = r.name

(* its indexes and keys are of columns, as they are spelled; no two columns differ in case alone *)
WellNamed(t) ==
  LET spelled == {c.name : c \in ToSet(t.columns)} IN
  /\ t.name # <<>>
  /\ \A i, j \in DOMAIN t.columns : Lc(t.columns[i].name) = Lc(t.columns[j].name) => i = j
  /\ ToSet(t.key) \subseteq spelled
  /\ \A fk \in ToSet(t.fks) : ToSet(fk.cols) \subseteq spelled
  /\ \A ix \in ToSet(t.indexes) : ix.cols # <<>> /\ ToSet(ix.cols) \subseteq spelled

(* what a statement is told of a table or routine does not depend on which *)
(* of the reporters it asks (proc.go, infoschema.go, sysviews.go, value.go); two  *)
(* names of one id are left out: the functions know one of them            *)
ReportersAgree ==
  Ended /\ ~IsSystemDb(Current) => \A a \in Told :
    LET d == Description(a) IN
    \A o \in Tables(d) \cup ToSet(d.rts) :
      (\A u \in (Tables(d) \cup ToSet(d.rts)) \ {o} :
            ObjectId(u.name) # ObjectId(o.name) /\ ~EqualFold(u.name, o.name)) =>
        IF o \in Tables(d) THEN NumberedAlike(o) /\ WellNamed(o) => ReportTheSame(d, o)
        ELSE o.name # <<>> => ReportTheSameRoutine(d, o)
=============================================================================
