---------------------------- MODULE CatalogueViews ----------------------------
(***************************************************************************)
(* sys.* and INFORMATION_SCHEMA.*: what their rows say of a description.   *)
(* A description d of the backend's catalogue is a record                  *)
(*   tables  sequence of [name, catalog, columns, key, fks, indexes,       *)
(*           checks]                                                       *)
(*   types   names of the declared table types                             *)
(*   rts     sequence of stored routines [name, kind, params, refs,        *)
(*           idents, on]                                                   *)
(*   dbs     the databases the backend lists                               *)
(*   who     the caller [user, roles];  live: the spids it may see         *)
(* A name is a sequence of words, so that "PK_" + t is <<"PK">> \o t; 0    *)
(* and NULL are the empty name.  Rows are records of the columns that tell *)
(* something; constant columns are left out, and a view is a set of rows.  *)
(***************************************************************************)
EXTENDS CatalogueTypes, FiniteSets, SequencesExt

CONSTANTS
  Lower,    \* word |-> its lower case, for the words that have capitals
  Hash,     \* word |-> the word whose hash it shares, for words that collide
  DbHash,   \* database |-> what dbIDOf makes of its name
  Rank      \* database |-> its place in the order of the names

(* ---- what a backend declares of tables and routines (catalog.Table, tds.Routine) ---- *)
Name       == Seq(STRING)
Types      == [kind : STRING, decl : STRING, len : Int, prec : Int, scale : Int, null : BOOLEAN]
ColumnDefs == [name : STRING, type : Types, default : BOOLEAN, identity : BOOLEAN, computed : BOOLEAN]
KeyDefs    == [cols : Seq(STRING), ref : Name, refCols : Seq(STRING)]
IndexDefs  == [name : Name, cols : Seq(STRING), unique : BOOLEAN, primary : BOOLEAN, clustered : BOOLEAN]
CheckDefs  == [name : Name, brackets : SUBSET STRING]
TableDefs  == [name : Name, catalog : STRING, columns : Seq(ColumnDefs), key : Seq(STRING),
               fks : Seq(KeyDefs), indexes : Seq(IndexDefs), checks : Seq(CheckDefs)]
ParamDefs   == [name : STRING, decl : STRING, len : Int, prec : Int, scale : Int]
RoutineDefs == [name : Name, kind : {"view", "proc", "func", "trigger"}, params : Seq(ParamDefs),
                refs : Seq(Name), idents : SUBSET STRING, on : Name]

Lc(w)     == Lookup(Lower, w, w)
Folded(n) == [i \in DOMAIN n |-> Lc(n[i])]
EqualFold(m, n) == Folded(m) = Folded(n)

(* object ids are hashes of names: case counts, and names may share one *)
ObjectId(n) == [i \in DOMAIN n |-> Lookup(Hash, n[i], n[i])]
NoId == <<>>

(* ---- database ids ---- *)
SystemDb == [master |-> 1, tempdb |-> 2, model |-> 3, msdb |-> 4]

DbIdOf(n) == Lookup(SystemDb, Lc(n), IF n = "" THEN 0 ELSE DbHash[n])    \* DB_ID

DbIdForList(n, dbs) ==                                           \* database_id
  LET users   == {i \in DOMAIN dbs : Lc(dbs[i]) \notin DOMAIN SystemDb}
      before(i) == Cardinality({j \in users : Rank[dbs[j]] < Rank[dbs[i]]})
      same    == {before(i) : i \in {j \in users : Lc(dbs[j]) = Lc(n)}}
  IN Lookup(SystemDb, Lc(n),
            IF same = {} THEN DbIdOf(n) ELSE 5 + (CHOOSE p \in same : \A q \in same : p <= q))

DatabasesRows(dbs) ==
  {[name |-> s, database_id |-> SystemDb[s]] : s \in DOMAIN SystemDb} \cup
  {[name |-> n, database_id |-> DbIdForList(n, IF dbs = <<>> THEN <<"haystak">> ELSE dbs)] :
     n \in ToSet(IF dbs = <<>> THEN <<"haystak">> ELSE dbs)}

DbName(id, dbs) ==                        \* DB_NAME(id): the last database of that id, or ""
  LET named == SelectSeq(dbs, LAMBDA n : DbIdForList(n, dbs) = id)
      system == {s \in DOMAIN SystemDb : SystemDb[s] = id}
  IN IF named # <<>> THEN Last(named) ELSE IF system # {} THEN CHOOSE s \in system : TRUE ELSE ""

(* ---- tables and their parts, each with its place ---- *)
Tables(d)  == ToSet(d.tables)
Columns(d) == UNION {{[t |-> t, i |-> i, c |-> t.columns[i]] : i \in DOMAIN t.columns} : t \in Tables(d)}

ColId(t, c) ==                            \* 0 for a column the table does not have
  LET at == {i \in DOMAIN t.columns : Lc(t.columns[i].name) = Lc(c)}
  IN IF at = {} THEN 0 ELSE CHOOSE i \in at : \A j \in at : i <= j

(* a declared index, or the clustered one made up for a key without *)
TableIndexes(t) ==
  IF (\E i \in DOMAIN t.indexes : t.indexes[i].primary) \/ t.key = <<>> THEN t.indexes
  ELSE <<[name |-> <<"PK">> \o t.name, cols |-> t.key, unique |-> TRUE, primary |-> TRUE,
          clustered |-> TRUE]>> \o t.indexes

Indexes(d) == UNION {{[t |-> t, i |-> i, ix |-> TableIndexes(t)[i]] : i \in DOMAIN TableIndexes(t)} :
                       t \in Tables(d)}

FkName(t, fk) == <<"FK">> \o t.name \o fk.ref

ForeignKeys(d) ==                         \* in the order of the tables and of their keys
  FlattenSeq([i \in DOMAIN d.tables |->
    [k \in DOMAIN d.tables[i].fks |-> [t |-> d.tables[i], fk |-> d.tables[i].fks[k]]]])

(* a map filled in order keeps, of several under one key, the last *)
LastOf(s, at) == {s[i] : i \in {j \in at : \A k \in at : k <= j}}

OfId(s, id) == LastOf(s, {i \in DOMAIN s : ObjectId(s[i].name) = id})

Referenced(d, n) ==                       \* the table, if any, a foreign key means by n
  LastOf(d.tables, {i \in DOMAIN d.tables : EqualFold(d.tables[i].name, n)})

IdOf(ts) == IF ts = {} THEN NoId ELSE ObjectId((CHOOSE t \in ts : TRUE).name)

(* ---- sys.*: tables, columns, types ---- *)
TablesRows(d) == {[name |-> t.name, object_id |-> ObjectId(t.name)] : t \in Tables(d)}

RoutineTypeCodes == [view |-> "V", proc |-> "P", func |-> "FN", trigger |-> "TR"]

Routines(d, kinds) == {r \in ToSet(d.rts) : r.kind \in kinds}

ObjectsRows(d) ==
  {[name |-> t.name, object_id |-> ObjectId(t.name), type |-> "U"] : t \in Tables(d)} \cup
  {[name |-> r.name, object_id |-> ObjectId(r.name), type |-> RoutineTypeCodes[r.kind]] : r \in ToSet(d.rts)}

ViewsRows(d)      == {[name |-> r.name, object_id |-> ObjectId(r.name)] : r \in Routines(d, {"view"})}
ProceduresRows(d) == {[name |-> r.name, object_id |-> ObjectId(r.name)] : r \in Routines(d, {"proc"})}

(* the CREATE text, as what it is made of; parameters are kept for procedures and functions *)
ScriptDefinition(r) ==
  [create |-> r.kind, name |-> r.name, refs |-> r.refs,
   params |-> IF r.kind \in {"proc", "func"} THEN r.params ELSE <<>>]

SqlModulesRows(d) ==
  {[object_id |-> ObjectId(r.name), definition |-> ScriptDefinition(r)] : r \in ToSet(d.rts)}

ParametersRows(d) ==
  UNION {{[object_id |-> ObjectId(r.name), name |-> r.params[i].name, parameter_id |-> i,
           system_type_id |-> SysTypeIdByName(r.params[i].decl)] : i \in DOMAIN r.params} :
         r \in ToSet(d.rts)}

ColumnsRows(d) ==
  {[object_id |-> ObjectId(x.t.name), name |-> x.c.name, column_id |-> x.i,
    user_type_id |-> SysTypeId(x.c.type), max_length |-> SysTypeLen(x.c.type),
    is_nullable |-> x.c.type.null] : x \in Columns(d)}

SysColumnsRows(d) ==
  {[name |-> x.c.name, id |-> ObjectId(x.t.name), colid |-> x.i, xtype |-> SysTypeId(x.c.type),
    length |-> SysTypeLen(x.c.type), isnullable |-> x.c.type.null] : x \in Columns(d)}

SysObjectsRows(d) == {[name |-> o.name, id |-> o.object_id, xtype |-> o.type] : o \in ObjectsRows(d)}

PartitionsRows(d) == {[object_id |-> ObjectId(t.name), index_id |-> 1] : t \in Tables(d)}

TableTypesRows(d) == {[name |-> n, type_table_object_id |-> ObjectId(n)] : n \in ToSet(d.types)}

IdentityColumnsRows(d) ==
  {[object_id |-> ObjectId(x.t.name), name |-> x.c.name, column_id |-> x.i] :
     x \in {y \in Columns(d) : y.c.identity}}

ComputedColumnsRows(d) ==
  {[object_id |-> ObjectId(x.t.name), name |-> x.c.name, column_id |-> x.i] :
     x \in {y \in Columns(d) : y.c.computed}}

DefaultConstraintsRows(d) ==
  {[object_id |-> ObjectId(<<"DF">> \o x.t.name \o <<x.c.name>>), parent_object_id |-> ObjectId(x.t.name),
    parent_column_id |-> x.i] : x \in {y \in Columns(d) : y.c.default}}

CheckConstraintsRows(d) ==
  UNION {{[object_id |-> ObjectId(k.name), parent_object_id |-> ObjectId(t.name)] : k \in ToSet(t.checks)} :
         t \in Tables(d)}

(* ---- sys.*: indexes and keys ---- *)
IndexId(t, i) ==         \* sys.indexes numbers: clustered is 1, the others from 2 in their order
  LET ixs == TableIndexes(t) IN
  IF ixs[i].clustered THEN 1
  ELSE 2 + Cardinality({j \in 1..(i - 1) : ~ixs[j].clustered})

IndexesRows(d) ==
  {[object_id |-> ObjectId(t.name), name |-> NoId, index_id |-> 0, is_primary_key |-> FALSE] :      \* heaps
     t \in {u \in Tables(d) : \A i \in DOMAIN TableIndexes(u) : ~TableIndexes(u)[i].clustered}} \cup
  {[object_id |-> ObjectId(x.t.name), name |-> x.ix.name, index_id |-> IndexId(x.t, x.i),
    is_primary_key |-> x.ix.primary] : x \in Indexes(d)}

IndexColumnsRows(d) ==   \* the others number indexes by their place
  UNION {{[object_id |-> ObjectId(x.t.name), index_id |-> x.i, key_ordinal |-> j,
           column_id |-> ColId(x.t, x.ix.cols[j])] : j \in DOMAIN x.ix.cols} : x \in Indexes(d)}

BugKeyConstraintsRows(d) ==     \* places counted from 0
  {[name |-> x.ix.name, object_id |-> ObjectId(x.ix.name), parent_object_id |-> ObjectId(x.t.name),
    type |-> IF x.ix.primary THEN "PK" ELSE "UQ", unique_index_id |-> x.i - 1] :
     x \in {y \in Indexes(d) : y.ix.primary \/ y.ix.unique}}

KeyConstraintsRows(d) ==
  {[name |-> x.ix.name, object_id |-> ObjectId(x.ix.name), parent_object_id |-> ObjectId(x.t.name),
    type |-> IF x.ix.primary THEN "PK" ELSE "UQ", unique_index_id |-> x.i] :
     x \in {y \in Indexes(d) : y.ix.primary \/ y.ix.unique}}

SysIndexesRows(d) ==
  {[id |-> ObjectId(x.t.name), name |-> x.ix.name, indid |-> x.i] : x \in Indexes(d)}

ForeignKeysRows(d) ==    \* object ids are counted from 200
  LET fks == ForeignKeys(d) IN
  {[name |-> FkName(fks[n].t, fks[n].fk), object_id |-> <<"#", 199 + n>>,
    parent_object_id |-> ObjectId(fks[n].t.name),
    referenced_object_id |-> IdOf(Referenced(d, fks[n].fk.ref))] : n \in DOMAIN fks}

ForeignKeyColumnsRows(d) ==
  LET fks == ForeignKeys(d)
      refCol(fk, k) == IF Referenced(d, fk.ref) = {} \/ k > Len(fk.refCols) THEN 0
                       ELSE ColId(CHOOSE t \in Referenced(d, fk.ref) : TRUE, fk.refCols[k])
  IN UNION {{[constraint_object_id |-> ObjectId(FkName(x.t, x.fk)), constraint_column_id |-> k,
              parent_object_id |-> ObjectId(x.t.name), parent_column_id |-> ColId(x.t, x.fk.cols[k]),
              referenced_object_id |-> IdOf(Referenced(d, x.fk.ref)),
              referenced_column_id |-> refCol(x.fk, k)] : k \in DOMAIN x.fk.cols} : x \in ToSet(fks)}

(* ---- sys.*: what routines refer to ---- *)
Known(d) == {Folded(t.name) : t \in Tables(d)} \cup {Folded(r.name) : r \in ToSet(d.rts)}

ReferencedNames(r) ==    \* after FROM and JOIN, each once whatever its case
  {r.refs[i] : i \in {j \in DOMAIN r.refs : \A k \in 1..(j - 1) : ~EqualFold(r.refs[k], r.refs[j])}}

DependenciesRows(d) ==
  UNION {{[referencing_id |-> ObjectId(r.name), referenced_entity_name |-> n,
           referenced_id |-> IF Folded(n) \in Known(d) THEN ObjectId(n) ELSE NoId] : n \in ReferencedNames(r)} :
         r \in Routines(d, {"view"})}

TriggersRows(d) ==
  {[name |-> r.name, object_id |-> ObjectId(r.name), parent_id |-> ObjectId(r.on)] : r \in Routines(d, {"trigger"})}

(* ---- sys.*: principals, sessions ---- *)
WellKnown == <<"public", "dbo", "guest", "INFORMATION_SCHEMA", "sys">>   \* principal ids 0..4

PrincipalName(who) == IF who.user = "" THEN "haystak" ELSE who.user
WellKnownId(n)     == {i - 1 : i \in {j \in DOMAIN WellKnown : Lc(WellKnown[j]) = Lc(n)}}
UserPrincipalId(who) == CHOOSE i \in WellKnownId(PrincipalName(who)) \cup {5} :
                          \A j \in WellKnownId(PrincipalName(who)) \cup {5} : i <= j

DatabasePrincipalsRows(d) ==
  {[name |-> WellKnown[i], principal_id |-> i - 1] : i \in DOMAIN WellKnown} \cup
  {[name |-> u, principal_id |-> 5] : u \in {v \in {PrincipalName(d.who)} : WellKnownId(v) = {}}} \cup
  {[name |-> d.who.roles[i], principal_id |-> 5 + i] : i \in DOMAIN d.who.roles}

SysUsersRows(d) ==
  {[uid |-> p.principal_id, name |-> p.name] : p \in {q \in DatabasePrincipalsRows(d) : q.principal_id <= 5}}

ServerPrincipalsRows(d) ==
  {[name |-> "sa", principal_id |-> 1], [name |-> "public", principal_id |-> 2]} \cup
  {[name |-> u, principal_id |-> 3] : u \in {v \in {PrincipalName(d.who)} : Lc(v) # "sa"}}

DatabaseRoleMembersRows(d) ==
  {[role_principal_id |-> 5 + i, member_principal_id |-> UserPrincipalId(d.who)] : i \in DOMAIN d.who.roles}

SessionsRows(d) == {[session_id |-> s] : s \in d.live}   \* dm_exec_sessions, _connections, _requests

(* ---- INFORMATION_SCHEMA ---- *)
CatalogOf(t) == IF t.catalog = "" THEN "haystak" ELSE t.catalog

InfoTablesRows(d) == {[TABLE_CATALOG |-> CatalogOf(t), TABLE_NAME |-> t.name] : t \in Tables(d)}

InfoColumnsRows(d) ==
  {[TABLE_NAME |-> x.t.name, COLUMN_NAME |-> x.c.name, ORDINAL_POSITION |-> x.i,
    IS_NULLABLE |-> x.c.type.null, DATA_TYPE |-> TypeName(x.c.type),
    CHARACTER_MAXIMUM_LENGTH |-> CharLen(x.c.type), NUMERIC_PRECISION |-> NumPrec(x.c.type),
    NUMERIC_SCALE |-> NumScale(x.c.type)] : x \in Columns(d)}

InfoViewsRows(d) ==
  {[TABLE_NAME |-> r.name, VIEW_DEFINITION |-> ScriptDefinition(r)] : r \in Routines(d, {"view"})}

InfoRoutinesRows(d) ==
  {[ROUTINE_NAME |-> r.name, ROUTINE_DEFINITION |-> ScriptDefinition(r)] : r \in Routines(d, {"proc", "func"})}

InfoParametersRows(d) ==
  UNION {{[SPECIFIC_NAME |-> r.name, ORDINAL_POSITION |-> i, DATA_TYPE |-> r.params[i].decl] :
            i \in DOMAIN r.params} : r \in Routines(d, {"proc", "func"})}

PkName(n) == <<"PK">> \o n     \* whatever the primary index is called

TableConstraintsRows(d) ==
  {[CONSTRAINT_NAME |-> PkName(t.name), TABLE_NAME |-> t.name, CONSTRAINT_TYPE |-> "PRIMARY KEY"] :
     t \in {u \in Tables(d) : u.key # <<>>}} \cup
  {[CONSTRAINT_NAME |-> FkName(x.t, x.fk), TABLE_NAME |-> x.t.name, CONSTRAINT_TYPE |-> "FOREIGN KEY"] :
     x \in ToSet(ForeignKeys(d))}

KeyColumnUsageRows(d) ==
  UNION ({{[CONSTRAINT_NAME |-> PkName(t.name), TABLE_NAME |-> t.name, COLUMN_NAME |-> t.key[i],
            ORDINAL_POSITION |-> i] : i \in DOMAIN t.key} : t \in Tables(d)} \cup
         {{[CONSTRAINT_NAME |-> FkName(x.t, x.fk), TABLE_NAME |-> x.t.name, COLUMN_NAME |-> x.fk.cols[i],
            ORDINAL_POSITION |-> i] : i \in DOMAIN x.fk.cols} : x \in ToSet(ForeignKeys(d))})

ReferentialConstraintsRows(d) ==
  {[CONSTRAINT_NAME |-> FkName(x.t, x.fk), UNIQUE_CONSTRAINT_NAME |-> PkName(x.fk.ref)] :
     x \in ToSet(ForeignKeys(d))}

InfoCheckConstraintsRows(d) ==
  UNION {{[CONSTRAINT_NAME |-> k.name] : k \in ToSet(t.checks)} : t \in Tables(d)}

ConstraintColumnUsageRows(d) ==
  UNION ({{[TABLE_NAME |-> t.name, COLUMN_NAME |-> c, CONSTRAINT_NAME |-> PkName(t.name)] :
             c \in ToSet(t.key)} : t \in Tables(d)} \cup
         {{[TABLE_NAME |-> x.fk.ref, COLUMN_NAME |-> c, CONSTRAINT_NAME |-> FkName(x.t, x.fk)] :
             c \in ToSet(x.fk.refCols)} : x \in ToSet(ForeignKeys(d))} \cup
         {{[TABLE_NAME |-> x.t.name, COLUMN_NAME |-> x.c.name, CONSTRAINT_NAME |-> k.name] :
             k \in {k2 \in ToSet(x.t.checks) : x.c.name \in k2.brackets}} : x \in Columns(d)})

ConstraintTableUsageRows(d) ==
  {[TABLE_NAME |-> t.name, CONSTRAINT_NAME |-> PkName(t.name)] : t \in {u \in Tables(d) : u.key # <<>>}} \cup
  {[TABLE_NAME |-> x.fk.ref, CONSTRAINT_NAME |-> FkName(x.t, x.fk)] : x \in ToSet(ForeignKeys(d))}

ViewTableUsageRows(d) ==
  UNION {{[VIEW_NAME |-> r.name, TABLE_NAME |-> n] :
            n \in {m \in ReferencedNames(r) : \E t \in Tables(d) : EqualFold(t.name, m)}} :
         r \in Routines(d, {"view"})}

ViewColumnUsageRows(d) ==
  UNION {UNION {{[VIEW_NAME |-> r.name, TABLE_NAME |-> t.name, COLUMN_NAME |-> c.name] :
                   c \in {c2 \in ToSet(t.columns) : Lc(c2.name) \in r.idents}} :
                t \in UNION {Referenced(d, n) : n \in ReferencedNames(r)}} :
         r \in Routines(d, {"view"})}

(* ---- the dispatch tables; a view that is not wired is an error ---- *)
Stubs ==      \* wired, and always without rows
  {"extended_properties", "sequences", "synonyms", "database_permissions", "server_permissions",
   "system_objects", "stats", "stats_columns", "dm_exec_query_stats", "dm_os_waiting_tasks"}

HaStubs ==
  {"internal_tables", "partition_schemes", "xml_schema_collections", "column_encryption_keys",
   "masked_columns", "xml_indexes", "spatial_indexes", "assembly_modules", "trigger_events",
   "system_sql_modules", "master_files", "partition_functions", "partition_range_values",
   "partition_parameters", "destination_data_spaces", "allocation_units", "dm_db_partition_stats",
   "availability_replicas", "availability_groups", "dm_hadr_database_replica_states",
   "database_mirroring", "dm_hadr_cluster", "dm_hadr_availability_replica_states",
   "dm_hadr_availability_group_states"}

SysRows(view, d) ==
  CASE view = "databases"                            -> DatabasesRows(d.dbs)
    [] view = "tables"                               -> TablesRows(d)
    [] view \in {"objects", "all_objects"}           -> ObjectsRows(d)
    [] view = "views"                                -> ViewsRows(d)
    [] view = "procedures"                           -> ProceduresRows(d)
    [] view = "sql_modules"                          -> SqlModulesRows(d)
    [] view = "parameters"                           -> ParametersRows(d)
    [] view \in {"columns", "all_columns"}           -> ColumnsRows(d)
    [] view \in {"types", "systypes"}                -> TypesRows
    [] view = "foreign_keys"                         -> ForeignKeysRows(d)
    [] view = "indexes"                              -> IndexesRows(d)
    [] view = "index_columns"                        -> IndexColumnsRows(d)
    [] view = "key_constraints"                      -> KeyConstraintsRows(d)
    [] view = "foreign_key_columns"                  -> ForeignKeyColumnsRows(d)
    [] view = "check_constraints"                    -> CheckConstraintsRows(d)
    [] view = "default_constraints"                  -> DefaultConstraintsRows(d)
    [] view = "identity_columns"                     -> IdentityColumnsRows(d)
    [] view = "computed_columns"                     -> ComputedColumnsRows(d)
    [] view = "sql_expression_dependencies"          -> DependenciesRows(d)
    [] view = "triggers"                             -> TriggersRows(d)
    [] view = "sysobjects"                           -> SysObjectsRows(d)
    [] view = "syscolumns"                           -> SysColumnsRows(d)
    [] view = "table_types"                          -> TableTypesRows(d)
    [] view = "database_principals"                  -> DatabasePrincipalsRows(d)
    [] view = "server_principals"                    -> ServerPrincipalsRows(d)
    [] view = "database_role_members"                -> DatabaseRoleMembersRows(d)
    [] view = "sysusers"                             -> SysUsersRows(d)
    [] view = "sysindexes"                           -> SysIndexesRows(d)
    [] view = "partitions"                           -> PartitionsRows(d)
    [] view \in {"dm_exec_sessions", "dm_exec_connections", "dm_exec_requests"} -> SessionsRows(d)
    [] view \in Stubs \cup HaStubs                    -> {}

InfoRows(view, d) ==
  CASE view = "TABLES"                  -> InfoTablesRows(d)
    [] view = "COLUMNS"                 -> InfoColumnsRows(d)
    [] view = "VIEWS"                   -> InfoViewsRows(d)
    [] view = "ROUTINES"                -> InfoRoutinesRows(d)
    [] view = "PARAMETERS"              -> InfoParametersRows(d)
    [] view = "TABLE_CONSTRAINTS"       -> TableConstraintsRows(d)
    [] view = "KEY_COLUMN_USAGE"        -> KeyColumnUsageRows(d)
    [] view = "REFERENTIAL_CONSTRAINTS" -> ReferentialConstraintsRows(d)
    [] view = "CHECK_CONSTRAINTS"       -> InfoCheckConstraintsRows(d)
    [] view = "CONSTRAINT_COLUMN_USAGE" -> ConstraintColumnUsageRows(d)
    [] view = "CONSTRAINT_TABLE_USAGE"  -> ConstraintTableUsageRows(d)
    [] view = "VIEW_TABLE_USAGE"        -> ViewTableUsageRows(d)
    [] view = "VIEW_COLUMN_USAGE"       -> ViewColumnUsageRows(d)
    [] view \in {"ROUTINE_COLUMNS", "DOMAINS"} -> {}

(* ---- the functions over the catalogue ---- *)
TableById(d, id) == OfId(d.tables, id)

ObjectName(d, id) ==     \* OBJECT_NAME: a routine of that id before a table
  LET named == IF OfId(d.rts, id) # {} THEN OfId(d.rts, id) ELSE TableById(d, id)
  IN IF named = {} THEN NoId ELSE (CHOOSE o \in named : TRUE).name

ObjectKind(d, id) ==
  LET codes == {RoutineTypeCodes[r.kind] : r \in OfId(d.rts, id)} \cup
               {c \in {"U"} : OfId(d.rts, id) = {} /\ TableById(d, id) # {}}
  IN IF codes = {} THEN "" ELSE CHOOSE c \in codes : TRUE

ObjectDefinition(d, id) == {ScriptDefinition(r) : r \in OfId(d.rts, id)}

ColName(d, id, i) == {t.columns[i].name : t \in {u \in TableById(d, id) : i \in DOMAIN u.columns}}

ColLength(d, name, c) ==
  {ColByteLen(t.columns[ColId(t, c)].type) : t \in {u \in TableById(d, ObjectId(name)) : ColId(u, c) > 0}}

ColumnProperty(d, id, c, prop) ==
  {CASE prop = "ColumnId"   -> ColId(t, c)
     [] prop = "AllowsNull" -> t.columns[ColId(t, c)].type.null
     [] prop = "IsIdentity" -> t.columns[ColId(t, c)].identity
     [] prop = "IsComputed" -> t.columns[ColId(t, c)].computed :
   t \in {u \in TableById(d, id) : ColId(u, c) > 0}}

IndexProperty(d, id, name) ==   \* IndexID, of the declared indexes alone
  {i \in 1..10 : \E t \in TableById(d, id) : i \in DOMAIN t.indexes /\ EqualFold(t.indexes[i].name, name)}

IndexKeyProperty(d, id, i, k) ==   \* ColumnId
  {ColId(t, t.indexes[i].cols[k]) :
     t \in {u \in TableById(d, id) : i \in DOMAIN u.indexes /\ k \in DOMAIN u.indexes[i].cols}}

ObjectProperty(d, id, prop) ==
  CASE prop = "IsTable"     -> ObjectKind(d, id) = "U"
    [] prop = "IsView"      -> ObjectKind(d, id) = "V"
    [] prop = "IsProcedure" -> ObjectKind(d, id) = "P"
    [] prop = "TableHasPrimaryKey" -> \E t \in TableById(d, id) : t.key # <<>>
    [] prop = "TableHasIdentity"   -> \E t \in TableById(d, id) : \E c \in ToSet(t.columns) : c.identity
=============================================================================
