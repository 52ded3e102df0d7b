------------------------------ MODULE Gateways ------------------------------
(***************************************************************************)
(* The example backends: gateways over one Elasticsearch, OpenSearch or    *)
(* MongoDB store, which other gateways use at the same time.               *)
(*                                                                         *)
(* kind says where the catalogue comes from:                               *)
(*   "hybrid"    columns from the index mappings, keys declared in an      *)
(*               index (elasticsearch-, opensearch-community-2)            *)
(*   "declared"  declared in a collection (mongodb-community-2)            *)
(*   "hits"      inferred from documents (elasticsearch-, opensearch-...)  *)
(*   "sampled"   inferred from documents (mongodb-community)               *)
(*   "static"    fixed in the code (mongodb-community-3)                   *)
(*                                                                         *)
(* What a gateway does is a sequence of calls of the store, todo[g].  A    *)
(* call may be refused, or done and its answer lost; a gateway may die     *)
(* between two calls and be started again.                                 *)
(*                                                                         *)
(* A document is [id, at], at a function of the fields it has; a           *)
(* declaration is [table, cols, key, again], cols a function column |->    *)
(* type and again the columns that were pushed on a name already there.    *)
(***************************************************************************)
EXTENDS Integers, Sequences, FiniteSets, SequencesExt

CONSTANTS
  Gates,        \* the gateways
  KindsServed,  \* the kinds explored
  TableNames, NoTable,  \* the tables a gateway is started for (Elasticsearch: those its pattern means)
  ValueKind,    \* value |-> "int", "float", "bool", "time", "string"
  ValueRank,    \* value |-> its place among those of its kind
  Demo,         \* the demonstration's tables, in order: [name, cols, key, docs]
  Foreign,      \* what the store holds before: name |-> [fields, docs]
  CreateLists,  \* the column lists CREATE TABLE may give
  ChangedTables, \* the tables clients alter, drop and change the rows of
  RowLists,     \* the rows an INSERT may give: sequences of documents
  Wheres,       \* conditions: sequences of [field, op, val]
  Sets,         \* assignments: sequences of [field, val]
  SampleSize, ScanSize,
  MaxJobs, MaxFailures  \* bounds of the exploration: jobs; faults and crashes together

Kinds == {"hybrid", "declared", "hits", "sampled", "static"}
Types == {"Int64", "Int32", "Bool", "Float64", "Decimal", "Time", "UUID", "Bytes", "String"}
SqlNames == {"bigint", "int", "bit", "float", "decimal", "datetime", "uniqueidentifier", "varbinary", "varchar"}
EsNames == {"long", "integer", "boolean", "float", "double", "date", "binary", "keyword", "text"}

List(s) == s \in Seq(ToSet(s))

ASSUME GatewaysAssumption ==
  /\ Gates # {}
  /\ SampleSize \in Nat \ {0} /\ ScanSize \in Nat \ {0}
  /\ MaxJobs \in Nat /\ MaxFailures \in Nat
  /\ KindsServed \subseteq Kinds
  /\ IsFiniteSet(TableNames)
  /\ NoTable \notin TableNames /\ ChangedTables \subseteq TableNames

VARIABLES
  kind,
  coll,         \* the store: name |-> [fields, docs], of the tables there are
  decls,        \* the store: the declarations, in the order they were made
  declIndex,    \* the store: the index of declarations is there
  up,           \* g |-> "down", "starting", "serving"
  job, todo,    \* g |-> what it does, and the calls it still makes
  got,          \* g |-> the tables it will answer
  seen,         \* history: g |-> declarations and columns that were there while it reads
  always,       \* history: g |-> the names of the tables that were there all that time
  known, full,  \* history: g |-> declarations, tables with documents, there ever since it started
  made,         \* history: g |-> the tables it created since it started
  demo,         \* history: every start was of the demonstration, and nothing was dropped or deleted
  faults, crashes, jobs

store   == <<coll, decls, declIndex>>
history == <<seen, always, known, full, made, demo>>
bounds  == <<faults, crashes, jobs>>
vars    == <<kind, store, up, job, todo, got, history, bounds>>

Elastic == kind \in {"hybrid", "hits"}
Keyed   == kind \in {"hybrid", "declared"}    \* declarations are kept

(***************************************************************************)
(* Types                                                                   *)
(***************************************************************************)
KindToES(k) ==
  CASE k = "Int64" -> "long" [] k = "Int32" -> "integer" [] k = "Bool" -> "boolean"
    [] k \in {"Float64", "Decimal"} -> "double" [] k = "Time" -> "date" [] k = "Bytes" -> "binary"
    [] OTHER -> "keyword"

EsTypeToSQL(e) ==
  CASE e \in {"long", "unsigned_long"} -> "Int64"
    [] e \in {"integer", "short", "byte"} -> "Int32"
    [] e \in {"float", "double", "half_float", "scaled_float"} -> "Float64"
    [] e = "boolean" -> "Bool" [] e \in {"date", "date_nanos"} -> "Time" [] e = "binary" -> "Bytes"
    [] OTHER -> "String"

KindToSQL(k) ==
  CASE k = "Int64" -> "bigint" [] k = "Int32" -> "int" [] k = "Bool" -> "bit" [] k = "Float64" -> "float"
    [] k = "Decimal" -> "decimal" [] k = "Time" -> "datetime" [] k = "UUID" -> "uniqueidentifier"
    [] k = "Bytes" -> "varbinary" [] OTHER -> "varchar"

SqlType(n) ==
  CASE n = "bigint" -> "Int64" [] n \in {"int", "integer", "smallint", "tinyint"} -> "Int32"
    [] n \in {"bit", "bool", "boolean"} -> "Bool" [] n \in {"float", "real", "double"} -> "Float64"
    [] n \in {"decimal", "numeric", "money"} -> "Decimal"
    [] n \in {"date", "datetime", "datetime2", "time"} -> "Time"
    [] n \in {"uniqueidentifier", "uuid"} -> "UUID" [] n \in {"varbinary", "binary"} -> "Bytes"
    [] OTHER -> "String"

BugBsonSQLType(v) == IF ValueKind[v] = "int" THEN "long" ELSE "varchar"   \* mutant: a name of the other store

BsonSQLType(v) ==
  CASE ValueKind[v] = "int" -> "bigint" [] ValueKind[v] = "float" -> "float" [] ValueKind[v] = "bool" -> "bit"
    [] ValueKind[v] = "time" -> "datetime" [] OTHER -> "varchar"

BsonKind(v) ==
  CASE ValueKind[v] = "int" -> "Int64" [] ValueKind[v] = "float" -> "Float64" [] ValueKind[v] = "bool" -> "Bool"
    [] ValueKind[v] = "time" -> "Time" [] OTHER -> "String"

JsonKind(v) ==
  CASE ValueKind[v] = "bool" -> "Bool" [] ValueKind[v] = "float" -> "Float64" [] ValueKind[v] = "int" -> "Int64"
    [] OTHER -> "String"

(***************************************************************************)
(* The store                                                               *)
(***************************************************************************)
Mapped(v) ==                       \* the type a field gets from its first value
  CASE ValueKind[v] = "int" -> "long" [] ValueKind[v] = "float" -> "float" [] ValueKind[v] = "bool" -> "boolean"
    [] ValueKind[v] = "time" -> "date" [] OTHER -> "text"

Accepts(e, v) ==
  CASE e \in {"long", "integer"} -> ValueKind[v] = "int"
    [] e \in {"float", "double"} -> ValueKind[v] \in {"int", "float"}
    [] e = "boolean" -> ValueKind[v] = "bool" [] e = "date" -> ValueKind[v] = "time" [] OTHER -> TRUE

(* the demonstration is a list of tables, and what clients send are lists *)
ASSUME DataAssumption ==
  /\ List(Demo)
  /\ \A i \in DOMAIN Demo :
       /\ Demo[i].name \in TableNames
       /\ \A f \in DOMAIN Demo[i].cols : Demo[i].cols[f] \in Types
       /\ List(Demo[i].docs) /\ Demo[i].docs # <<>>
  (* what is indexed fits the index it is made for: its columns, of their types *)
  /\ "hybrid" \in KindsServed =>
       \A i \in DOMAIN Demo : \A n \in DOMAIN Demo[i].docs : \A f \in DOMAIN Demo[i].docs[n].at :
         f \in DOMAIN Demo[i].cols /\ Accepts(KindToES(Demo[i].cols[f]), Demo[i].docs[n].at[f])
  /\ DOMAIN Foreign \subseteq TableNames
  /\ \A t \in DOMAIN Foreign :
       /\ Foreign[t] = [fields |-> Foreign[t].fields, docs |-> Foreign[t].docs]
       /\ \A f \in DOMAIN Foreign[t].fields : Foreign[t].fields[f] \in EsNames
       /\ List(Foreign[t].docs)
  /\ \A i \in DOMAIN RowLists : List(RowLists[i])

There(t)  == t \in DOMAIN coll
Docs(t)   == IF There(t) THEN coll[t].docs ELSE <<>>
Empty     == [f \in {} |-> ""]
NewColl(cols) == [fields |-> cols, docs |-> <<>>]
Holder(t) == IF There(t) THEN coll[t] ELSE NewColl(Empty)   \* made by the first write
(* f, and g where f is not defined *)
Extended(f, g) == [a \in DOMAIN f \cup DOMAIN g |-> IF a \in DOMAIN f THEN f[a] ELSE g[a]]

Learn(m, at) == Extended(m, [f \in DOMAIN at |-> Mapped(at[f])])

Stored(c, d) ==                    \* one document; one of the same id is replaced
  LET same == {i \in DOMAIN c.docs : d.id # "" /\ c.docs[i].id = d.id} IN
  [fields |-> Learn(c.fields, d.at),
   docs |-> IF same = {} THEN Append(c.docs, d) ELSE [i \in DOMAIN c.docs |-> IF i \in same THEN d ELSE c.docs[i]]]

Unfit(t, d) == \E f \in DOMAIN d.at : f \in DOMAIN Holder(t).fields /\ ~Accepts(Holder(t).fields[f], d.at[f])

Taken(docs, n) ==                  \* the n-th has the id of one before it
  docs[n].id # "" /\ \E i \in 1..(n - 1) : docs[i].id = docs[n].id

InOrder(c, docs) ==                \* an ordered insertMany ends at the first id that is taken
  LET all == c.docs \o docs
      bad == {n \in (Len(c.docs) + 1)..Len(all) : Taken(all, n)}
      upTo == IF bad = {} THEN Len(all) ELSE Min(bad) - 1
  IN [c EXCEPT !.docs = SubSeq(all, 1, upTo)]

Above(v, w) == ValueKind[v] = ValueKind[w] /\ ValueRank[v] > ValueRank[w]

(* one predicate against one document, as the store answers it *)
PredToFilter(p, d) ==
  LET has == p.field \in DOMAIN d.at
      v == d.at[p.field]
      eq == has /\ v = p.val
  IN CASE p.op = "<>" -> ~eq                      \* also where the field is missing
       [] p.op = "<"  -> has /\ Above(p.val, v)
       [] p.op = ">"  -> has /\ Above(v, p.val)
       [] p.op = "<=" -> eq \/ (has /\ Above(p.val, v))
       [] p.op = ">=" -> eq \/ (has /\ Above(v, p.val))
       [] OTHER       -> eq

PredsToQuery(preds, d) == \A i \in DOMAIN preds : PredToFilter(preds[i], d)

Assign(d, set) ==                  \* SET, left to right
  [d EXCEPT !.at = FoldSeq(LAMBDA a, m : Extended([f \in {a.field} |-> a.val], m), @, set)]

(***************************************************************************)
(* Jobs as calls of the store                                              *)
(***************************************************************************)
Call(c, t, x) == [c |-> c, t |-> t, x |-> x]
Calls(c, t, xs) == [i \in DOMAIN xs |-> Call(c, t, xs[i])]
Each(c, ts) == [i \in DOMAIN ts |-> Call(c, ts[i], Empty)]

Declaration(t, cols, key) == [table |-> t, cols |-> cols, key |-> key, again |-> <<>>]

(* $push appends: a column of a name that is there is there twice *)
Pushed(d, cols) ==
  LET twice == DOMAIN cols \cap DOMAIN d.cols IN
  [d EXCEPT !.cols = Extended(@, cols),
            !.again = IF twice = {} THEN @ ELSE Append(@, [c \in twice |-> cols[c]])]

(* writeCatalog: the index of declarations is made first if it is not there *)
WriteCatalog(d) ==
  IF kind = "hybrid" THEN <<Call("declIndexExists", d.table, d), Call("putDecl", d.table, d)>>
                     ELSE <<Call("putDecl", d.table, d)>>

BugCreateTable(t, cols, key) ==    \* mutant: the keys are not declared
  <<Call("create", t, IF kind = "hybrid" THEN [c \in DOMAIN cols |-> KindToES(cols[c])] ELSE Empty)>>

CreateTable(t, cols, key) ==
  LET d == Declaration(t, cols, key) IN
  CASE kind = "hybrid"   -> <<Call("create", t, [c \in DOMAIN cols |-> KindToES(cols[c])])>> \o
                            WriteCatalog(Declaration(t, Empty, key))
    [] kind = "declared" -> <<Call("create", t, Empty)>> \o
                            WriteCatalog(Declaration(t, [c \in DOMAIN cols |-> KindToSQL(cols[c])], key))
    [] OTHER             -> <<Call("create", t, Empty)>>

AlterTable(t, cols) ==
  CASE kind = "hybrid"   -> <<Call("putMapping", t, [c \in DOMAIN cols |-> KindToES(cols[c])])>>
    [] kind = "declared" -> <<Call("pushCols", t, [c \in DOMAIN cols |-> KindToSQL(cols[c])])>>
    [] OTHER             -> <<>>

DropTable(t) == IF Keyed THEN <<Call("drop", t, Empty), Call("deleteDecl", t, Empty)>> ELSE <<Call("drop", t, Empty)>>

Insert(t, rows) == IF Elastic THEN Calls("index", t, rows) ELSE <<Call("insertMany", t, rows)>>

Describe ==
  CASE Keyed           -> <<Call("readDecls", NoTable, Empty)>>
    [] kind = "static" -> <<>>
    [] OTHER           -> <<Call("listNames", NoTable, Empty)>>

Scan(t) ==
  CASE kind = "hybrid"   -> <<Call("getDecl", t, Empty), Call("mapping", t, Empty), Call("search", t, Empty)>>
    [] kind = "declared" -> <<Call("getDecl", t, Empty), Call("search", t, Empty)>>
    [] kind = "sampled"  -> <<Call("sample", t, Empty), Call("search", t, Empty)>>
    [] OTHER             -> <<Call("search", t, Empty)>>

(* main: the demonstration's tables, each where it is missing or empty *)
Seed ==
  IF kind = "hybrid" THEN [i \in DOMAIN Demo |-> Call("exists", Demo[i].name, Demo[i])]
  ELSE [i \in DOMAIN Demo |-> Call("count", Demo[i].name, Demo[i])] \o
       (IF kind = "declared" THEN <<Call("countDecls", NoTable, Empty)>> ELSE <<>>)

(* main with a named database: declare what is there, if nothing is *)
EnsureCatalog ==
  CASE kind = "hybrid"   -> <<Call("readDecls", NoTable, Empty)>>
    [] kind = "declared" -> <<Call("countDecls", NoTable, Empty)>>
    [] OTHER             -> <<>>

(***************************************************************************)
(* Columns                                                                 *)
(***************************************************************************)
FirstDocs(t, n) == SubSeq(Docs(t), 1, Min({n, Len(Docs(t))}))
FieldsOf(docs) == UNION {DOMAIN docs[i].at : i \in DOMAIN docs}
FirstOf(docs, f) == docs[Min({i \in DOMAIN docs : f \in DOMAIN docs[i].at})].at[f]

MappingColumns(t) == [f \in DOMAIN coll[t].fields |-> EsTypeToSQL(coll[t].fields[f])]

ColumnsFromHits(docs) ==
  [f \in {"_id"} \cup FieldsOf(docs) |-> IF f = "_id" THEN "String" ELSE JsonKind(FirstOf(docs, f))]

InferColumns(docs) ==
  [f \in {"_id"} \cup FieldsOf(docs) |-> IF f = "_id" THEN "String" ELSE BsonKind(FirstOf(docs, f))]

InferCatalogDoc(t, docs) ==        \* _id is a column only without an id, or without any other
  LET fs == FieldsOf(docs) IN
  Declaration(t, [f \in IF "id" \in fs THEN fs ELSE fs \cup {"_id"} |->
                    IF f = "_id" THEN "varchar" ELSE BsonSQLType(FirstOf(docs, f))],
              IF "id" \in fs THEN {"id"} ELSE {"_id"})

SqlTypes(cols) == [c \in DOMAIN cols |-> SqlType(cols[c])]

ToTable(d) == [name |-> d.table, cols |-> SqlTypes(d.cols), key |-> d.key,
               again |-> [i \in DOMAIN d.again |-> SqlTypes(d.again[i])]]

At(t) == {i \in DOMAIN decls : decls[i].table = t}          \* where t is declared
Declared(t) == At(t) # {}
TheDecl(t) == decls[Min(At(t))]

StaticSchema == {[name |-> Demo[i].name, cols |-> Demo[i].cols, key |-> Demo[i].key] : i \in DOMAIN Demo}

(* the columns a table has now, by where they come from *)
ColumnsNow(t) ==
  CASE kind = "hybrid" -> MappingColumns(t)
    [] kind = "hits"   -> ColumnsFromHits(FirstDocs(t, SampleSize))
    [] OTHER           -> InferColumns(FirstDocs(t, SampleSize))

(* those "sampled" infers when its cursor ends, or fails, after n documents *)
ColumnsOfFirst(t, n) == InferColumns(FirstDocs(t, n))

(* the tables a client should find now *)
Listed ==
  CASE kind = "hybrid"   -> {t \in TableNames : Declared(t) /\ There(t) /\ DOMAIN coll[t].fields # {}}
    [] kind = "declared" -> {t \in TableNames : Declared(t)}
    [] kind = "static"   -> {x.name : x \in StaticSchema}
    [] OTHER             -> {t \in TableNames : There(t)}

(* in a MongoDB database a collection that is missing is one without documents *)
Moment == [decls |-> ToSet(decls),
           cols |-> IF kind \in {"declared", "static"} THEN {}
                    ELSE {<<t, ColumnsNow(t)>> : t \in {u \in TableNames : kind = "sampled" \/ There(u)}},
           part |-> IF kind = "sampled" THEN {<<t, ColumnsOfFirst(t, n)>> : t \in TableNames, n \in 0..SampleSize} ELSE {}]

Both(a, b) == [decls |-> a.decls \cup b.decls, cols |-> a.cols \cup b.cols, part |-> a.part \cup b.part]

(***************************************************************************)
(* Steps                                                                   *)
(***************************************************************************)
Nothing  == [do |-> "none", t |-> NoTable]
NoMoment == [decls |-> {}, cols |-> {}, part |-> {}]

Starts(g)  == up[g] = "starting"
Reading(g) == job[g].do \in {"describe", "scan"}
Cur(g)     == Head(todo[g])
Does(g, c) == up[g] # "down" /\ todo[g] # <<>> /\ Cur(g).c = c

Init ==
  /\ kind \in KindsServed
  /\ coll = Foreign /\ decls = <<>> /\ declIndex = FALSE
  /\ up = [g \in Gates |-> "down"]
  /\ job = [g \in Gates |-> Nothing] /\ todo = [g \in Gates |-> <<>>]
  /\ got = [g \in Gates |-> {}]
  /\ seen = [g \in Gates |-> NoMoment] /\ always = [g \in Gates |-> {}]
  /\ known = [g \in Gates |-> {}] /\ full = [g \in Gates |-> {}] /\ made = [g \in Gates |-> {}] /\ demo = TRUE
  /\ faults = 0 /\ crashes = 0 /\ jobs = 0

(* the store as a call leaves it, and how the gateway goes on *)
Now == [coll |-> coll, decls |-> decls, index |-> declIndex]
OnTo(g, calls) == [ok |-> TRUE, todo |-> calls \o Tail(todo[g]), got |-> got[g]]
With(r, tables) == [r EXCEPT !.got = @ \cup tables]
Fail == [ok |-> FALSE, todo |-> <<>>, got |-> {}]

Filled == {t \in TableNames : Docs(t) # <<>>}

(* The call is done and answered, and the gateway goes on as on.  Or it is an error, done or *)
(* not, and the gateway goes on as off: the store refused it (bad), or a fault.  An error    *)
(* that ends the job of a starting gateway ends the gateway (log.Fatal).                     *)
Perform(g, bad, new, on, off) ==
  \E done, answered \in BOOLEAN :
    /\ answered => done /\ ~bad
    /\ bad => done
    /\ answered \/ bad \/ faults + crashes < MaxFailures
    /\ UNCHANGED <<kind, demo, crashes, jobs>>
    /\ LET r == IF answered THEN on ELSE off
           s == IF done THEN new ELSE Now
       IN /\ coll' = s.coll /\ decls' = s.decls /\ declIndex' = s.index
          /\ todo' = [todo EXCEPT ![g] = r.todo] /\ got' = [got EXCEPT ![g] = r.got]
          /\ job' = IF r.ok THEN job ELSE [job EXCEPT ![g] = Nothing]
          /\ up' = IF ~r.ok /\ Starts(g) THEN [up EXCEPT ![g] = "down"] ELSE up
          /\ made' = [made EXCEPT ![g] =
               IF r.ok /\ Starts(g) THEN @ \cup (DOMAIN s.coll \ DOMAIN coll) ELSE {}]
    /\ faults' = IF answered \/ bad THEN faults ELSE faults + 1
    /\ LET missed == IF answered THEN {} ELSE {Cur(g).t} IN
       /\ seen' = [x \in Gates |-> IF job'[x].do \in {"describe", "scan"} THEN Both(seen[x], Moment') ELSE NoMoment]
       /\ always' = [x \in Gates |-> IF job'[x].do \in {"describe", "scan"}
                                     THEN (always[x] \cap Listed') \ (IF x = g THEN missed ELSE {}) ELSE {}]
       /\ known' = [x \in Gates |-> known[x] \cap ToSet(decls')]
       /\ full' = [x \in Gates |-> (full[x] \cap Filled') \ (IF x = g THEN missed ELSE {})]

Reads(g, bad, on, off) == Perform(g, bad, Now, on, off)

SetColl(t, c) == [Now EXCEPT !.coll = [u \in DOMAIN @ \cup {t} |-> IF u = t THEN c ELSE @[u]]]
SetDecls(ds) == [Now EXCEPT !.decls = ds, !.index = TRUE]

(* ---- tables ---- *)
BugCreateColl(g) ==                \* mutant: an index that is there will do
  /\ Does(g, "create")
  /\ LET c == Cur(g) IN
     Perform(g, FALSE, IF There(c.t) THEN Now ELSE SetColl(c.t, NewColl(c.x)), OnTo(g, <<>>), Fail)

CreateColl(g) ==                   \* refused if there is one
  /\ Does(g, "create")
  /\ LET c == Cur(g) IN
     Perform(g, There(c.t), IF There(c.t) THEN Now ELSE SetColl(c.t, NewColl(c.x)), OnTo(g, <<>>), Fail)

PutMapping(g) ==
  /\ Does(g, "putMapping")
  /\ LET c == Cur(g)
         bad == ~There(c.t) \/ \E f \in DOMAIN c.x \cap DOMAIN Holder(c.t).fields : c.x[f] # Holder(c.t).fields[f]
     IN Perform(g, bad, IF bad THEN Now ELSE SetColl(c.t, [coll[c.t] EXCEPT !.fields = Extended(@, c.x)]),
                OnTo(g, <<>>), Fail)

(* DropTable of "hybrid" does not look at the answers of its two calls *)
DropColl(g) ==
  /\ Does(g, "drop")
  /\ LET t == Cur(g).t IN
     \E off \in IF kind = "hybrid" THEN {Fail, OnTo(g, <<>>)} ELSE {Fail} :
       Perform(g, kind = "hits" /\ ~There(t), [Now EXCEPT !.coll = [u \in DOMAIN @ \ {t} |-> @[u]]],
               OnTo(g, <<>>), off)

DeleteDecl(g) ==
  /\ Does(g, "deleteDecl")
  /\ LET t == Cur(g).t
         left == IF Declared(t) THEN [Now EXCEPT !.decls = RemoveAt(decls, Min(At(t)))] ELSE Now
     IN \E off \in IF kind = "hybrid" THEN {Fail, OnTo(g, <<>>)} ELSE {Fail} :
          Perform(g, FALSE, left, OnTo(g, <<>>), off)

(* ---- rows ---- *)
IndexDoc(g) ==
  /\ Does(g, "index")
  /\ LET c == Cur(g) IN
     Perform(g, Unfit(c.t, c.x), IF Unfit(c.t, c.x) THEN Now ELSE SetColl(c.t, Stored(Holder(c.t), c.x)),
             OnTo(g, <<>>), Fail)

InsertMany(g) ==
  /\ Does(g, "insertMany")
  /\ LET c == Cur(g)
         after == InOrder(Holder(c.t), c.x)
     IN Perform(g, Len(after.docs) < Len(Docs(c.t)) + Len(c.x), SetColl(c.t, after), OnTo(g, <<>>), Fail)

UpdateWhere(g) ==
  /\ Does(g, "updateWhere")
  /\ LET c == Cur(g)
         docs == Docs(c.t)
         hit == {i \in DOMAIN docs : PredsToQuery(c.x.where, docs[i])}
         after == [i \in DOMAIN docs |-> IF i \in hit THEN Assign(docs[i], c.x.set) ELSE docs[i]]
         bad == Elastic /\ (~There(c.t) \/ \E i \in hit : Unfit(c.t, after[i]))
         fields == IF Elastic /\ hit # {} THEN Learn(Holder(c.t).fields, Assign([at |-> Empty], c.x.set).at)
                                          ELSE Holder(c.t).fields
     IN Perform(g, bad,
                IF bad \/ ~There(c.t) THEN Now
                ELSE SetColl(c.t, [fields |-> fields, docs |-> SubSeq(after, 1, Len(after))]), OnTo(g, <<>>), Fail)

DeleteWhere(g) ==
  /\ Does(g, "deleteWhere")
  /\ LET c == Cur(g)
         left == SelectSeq(Docs(c.t), LAMBDA d : ~PredsToQuery(c.x.where, d))
     IN Perform(g, Elastic /\ ~There(c.t),
                IF ~There(c.t) THEN Now ELSE SetColl(c.t, [coll[c.t] EXCEPT !.docs = left]), OnTo(g, <<>>), Fail)

Search(g) ==                       \* the documents of a table
  /\ Does(g, "search")
  /\ LET t == Cur(g).t
         cols == CASE kind = "hits"   -> {[name |-> t, cols |-> ColumnsFromHits(FirstDocs(t, ScanSize)), key |-> {}]}
                   [] kind = "static" -> {x \in StaticSchema : x.name = t}
                   [] OTHER           -> {}
     IN Reads(g, Elastic /\ ~There(t), With(OnTo(g, <<>>), cols), Fail)

(* ---- what is there ---- *)
Listing(ts) == SetToSeq(ts)

ReadDecls(g) ==                    \* allCatalogDocs; no index of declarations is no declarations
  /\ Does(g, "readDecls")
  /\ LET on == IF Starts(g)
               THEN OnTo(g, IF decls = <<>> THEN <<Call("listNames", NoTable, Empty)>> ELSE <<>>)
               ELSE IF kind = "hybrid"
               THEN OnTo(g, [i \in DOMAIN decls |-> Call("mapping", decls[i].table, decls[i].key)])
               ELSE With(OnTo(g, <<>>), {ToTable(decls[i]) : i \in DOMAIN decls})
     IN Reads(g, FALSE, on, Fail)

CountDecls(g) ==
  /\ Does(g, "countDecls")
  /\ LET all == [i \in DOMAIN Demo |->
                   Declaration(Demo[i].name, [c \in DOMAIN Demo[i].cols |-> KindToSQL(Demo[i].cols[c])], Demo[i].key)]
         calls == IF job[g].do = "seed" THEN <<Call("insertDecls", NoTable, all)>>
                                        ELSE <<Call("listNames", NoTable, Empty)>>
     IN Reads(g, FALSE, OnTo(g, IF decls = <<>> THEN calls ELSE <<>>), Fail)

(* of the tables there are those of the pattern; one that names a missing index is an error, a wildcard not *)
ListNames(g) ==
  /\ Does(g, "listNames")
  /\ \E bad \in {FALSE, Elastic /\ \E t \in TableNames : ~There(t)} :
       Reads(g, bad,
             OnTo(g, Each(IF kind = "hybrid" THEN "mapping" ELSE "sample", Listing({t \in TableNames : There(t)}))), Fail)

BugMapping(g) ==                   \* mutant: Describe ends at the table it cannot read
  /\ Does(g, "mapping")
  /\ LET t == Cur(g).t
         cols == IF There(t) THEN MappingColumns(t) ELSE Empty
         on == CASE job[g].do = "describe" -> With(OnTo(g, <<>>), {[name |-> t, cols |-> cols, key |-> Cur(g).x]})
                 [] job[g].do = "scan" -> With(OnTo(g, <<>>), {[name |-> t, cols |-> cols, key |-> {}]})
                 [] OTHER -> OnTo(g, WriteCatalog(Declaration(t, Empty, {"id"} \cap DOMAIN cols)))
     IN Reads(g, ~There(t), on, IF job[g].do = "describe" THEN [OnTo(g, <<>>) EXCEPT !.todo = <<>>] ELSE Fail)

(* the columns of one index; Describe leaves out the table it cannot read, or that has none *)
Mapping(g) ==
  /\ Does(g, "mapping")
  /\ LET t == Cur(g).t
         cols == IF There(t) THEN MappingColumns(t) ELSE Empty
         on == CASE job[g].do = "describe" ->
                      With(OnTo(g, <<>>), IF cols = Empty THEN {} ELSE {[name |-> t, cols |-> cols, key |-> Cur(g).x]})
                 [] job[g].do = "scan" -> With(OnTo(g, <<>>), {[name |-> t, cols |-> cols, key |-> {}]})
                 [] OTHER -> OnTo(g, WriteCatalog(Declaration(t, Empty, {"id"} \cap DOMAIN cols)))
     IN Reads(g, ~There(t), on, IF job[g].do = "describe" THEN OnTo(g, <<>>) ELSE Fail)

BugSample(g) ==                    \* mutant: the columns of the first document alone
  /\ Does(g, "sample")
  /\ LET t == Cur(g).t
         key == IF job[g].do = "scan" THEN {} ELSE {"_id"}
     IN Reads(g, kind = "hits" /\ ~There(t),
              With(OnTo(g, <<>>), {[name |-> t, cols |-> ColumnsOfFirst(t, 0), key |-> key]}), Fail)

(* The columns of one collection, from its first documents.  inferColumns of "sampled" does not  *)
(* look at the cursor's error: one that fails after n documents has ended, and an error of its   *)
(* opening alone is one.  inferCatalogDoc of "declared" and search of "hits" see every error.    *)
Sample(g) ==
  /\ Does(g, "sample")
  /\ LET t == Cur(g).t
         told(cols) ==
           With(OnTo(g, <<>>), {[name |-> t, cols |-> cols, key |-> IF job[g].do = "scan" THEN {} ELSE {"_id"}]})
         on == IF kind = "declared" THEN OnTo(g, <<Call("insertDecl", t, InferCatalogDoc(t, FirstDocs(t, SampleSize)))>>)
               ELSE told(ColumnsNow(t))
         cut == IF kind = "sampled" THEN {told(ColumnsOfFirst(t, n)) : n \in 0..SampleSize} ELSE {}
     IN \E off \in {Fail} \cup cut : Reads(g, kind = "hits" /\ ~There(t), on, off)

(* ---- declarations ---- *)
DeclIndexExists(g) ==              \* an error counts as no
  /\ Does(g, "declIndexExists")
  /\ LET no == OnTo(g, <<Call("declIndexCreate", NoTable, Empty)>>)
     IN Reads(g, FALSE, IF declIndex THEN OnTo(g, <<>>) ELSE no, no)

DeclIndexCreate(g) ==              \* one that is there already is as good
  /\ Does(g, "declIndexCreate")
  /\ Perform(g, FALSE, SetDecls(decls), OnTo(g, <<>>), Fail)

PutDecl(g) ==                      \* in the place of the one the table has, if any
  /\ Does(g, "putDecl")
  /\ LET d == Cur(g).x IN
     Perform(g, FALSE,
             SetDecls(IF Declared(d.table) THEN ReplaceAt(decls, Min(At(d.table)), d) ELSE Append(decls, d)),
             OnTo(g, <<>>), Fail)

InsertDecl(g) ==
  /\ Does(g, "insertDecl")
  /\ Perform(g, FALSE, SetDecls(Append(decls, Cur(g).x)), OnTo(g, <<>>), Fail)

InsertDecls(g) ==
  /\ Does(g, "insertDecls")
  /\ Perform(g, FALSE, SetDecls(decls \o Cur(g).x), OnTo(g, <<>>), Fail)

PushCols(g) ==                     \* of a table that is not declared: nothing, and no error
  /\ Does(g, "pushCols")
  /\ LET c == Cur(g) IN
     Perform(g, FALSE,
             IF Declared(c.t) THEN SetDecls(ReplaceAt(decls, Min(At(c.t)), Pushed(TheDecl(c.t), c.x))) ELSE Now,
             OnTo(g, <<>>), Fail)

GetDecl(g) ==                      \* an undeclared index or collection is not a table
  /\ Does(g, "getDecl")
  /\ LET t == Cur(g).t IN
     Reads(g, ~Declared(t),
           IF kind = "declared" /\ Declared(t) THEN With(OnTo(g, <<>>), {ToTable(TheDecl(t))}) ELSE OnTo(g, <<>>), Fail)

(* ---- the demonstration's tables ---- *)
Absent(g) ==                       \* what follows when a demonstration table is missing or empty
  LET x == Cur(g).x IN
  CASE kind = "hybrid" -> OnTo(g, CreateTable(x.name, x.cols, x.key) \o Calls("index", x.name, x.docs))
    [] kind = "hits"   -> OnTo(g, <<Call("ensure", x.name, Empty)>> \o Calls("index", x.name, x.docs))
    [] OTHER           -> OnTo(g, <<Call("insertMany", x.name, x.docs)>>)

ExistsIndex(g) ==                  \* an error counts as no
  /\ Does(g, "exists")
  /\ Reads(g, FALSE, IF There(Cur(g).t) THEN OnTo(g, <<>>) ELSE Absent(g), Absent(g))

BugCount(g) ==                     \* mutant: seeds whatever the count is
  /\ Does(g, "count")
  /\ Reads(g, FALSE, Absent(g), IF kind = "hits" THEN Absent(g) ELSE Fail)

Count(g) ==                        \* of Elasticsearch: an error counts as none
  /\ Does(g, "count")
  /\ Reads(g, FALSE, IF Docs(Cur(g).t) # <<>> THEN OnTo(g, <<>>) ELSE Absent(g), IF kind = "hits" THEN Absent(g) ELSE Fail)

Ensure(g) ==
  /\ Does(g, "ensure")
  /\ Reads(g, FALSE, OnTo(g, IF There(Cur(g).t) THEN <<>> ELSE <<Call("create", Cur(g).t, Empty)>>), Fail)

(***************************************************************************)
(* Jobs                                                                    *)
(***************************************************************************)
Begin(g, do, t, calls) ==
  /\ up[g] = "serving" /\ job[g] = Nothing /\ jobs < MaxJobs
  /\ jobs' = jobs + 1
  /\ job' = [job EXCEPT ![g] = [do |-> do, t |-> t]]
  /\ todo' = [todo EXCEPT ![g] = calls]
  /\ seen' = [seen EXCEPT ![g] = IF do \in {"describe", "scan"} THEN Moment ELSE @]
  /\ always' = [always EXCEPT ![g] = IF do \in {"describe", "scan"} THEN Listed ELSE @]
  /\ got' = [got EXCEPT ![g] = IF do = "describe" /\ kind = "static" THEN StaticSchema ELSE {}]
  /\ demo' = (demo /\ do \notin {"drop", "delete"})
  /\ UNCHANGED <<kind, store, up, known, full, made, faults, crashes>>

Served(t) == kind # "static" \/ \E x \in StaticSchema : x.name = t

BeginRead(g) ==
  \/ Begin(g, "describe", NoTable, Describe)
  \/ \E t \in TableNames : Served(t) /\ Begin(g, "scan", t, Scan(t))

BeginWrite(g) ==
  \E t \in ChangedTables : Served(t) /\
    \/ \E i \in DOMAIN RowLists : Begin(g, "insert", t, Insert(t, RowLists[i]))
    \/ \E i \in DOMAIN Wheres :
         \/ \E j \in DOMAIN Sets : Begin(g, "update", t, <<Call("updateWhere", t, [where |-> Wheres[i], set |-> Sets[j]])>>)
         \/ Begin(g, "delete", t, <<Call("deleteWhere", t, [where |-> Wheres[i]])>>)

BeginDDL(g) ==                     \* the fixed catalogue has none
  /\ kind # "static"
  /\ \/ \E t \in TableNames, i \in DOMAIN CreateLists :
           Begin(g, "create", t, CreateTable(t, CreateLists[i], DOMAIN CreateLists[i] \cap {"id"}))
     \/ \E t \in ChangedTables, i \in DOMAIN CreateLists : Begin(g, "alter", t, AlterTable(t, CreateLists[i]))
     \/ \E t \in ChangedTables : Begin(g, "drop", t, DropTable(t))

Done(g) == job[g] # Nothing /\ todo[g] = <<>>

Rest(g) ==
  /\ job' = [job EXCEPT ![g] = Nothing] /\ got' = [got EXCEPT ![g] = {}]
  /\ seen' = [seen EXCEPT ![g] = NoMoment] /\ always' = [always EXCEPT ![g] = {}]
  /\ known' = [known EXCEPT ![g] = {}] /\ full' = [full EXCEPT ![g] = {}] /\ made' = [made EXCEPT ![g] = {}]
  /\ UNCHANGED <<kind, store>>

Answer(g) == up[g] = "serving" /\ Done(g) /\ Rest(g) /\ UNCHANGED <<up, todo, demo, bounds>>

(* main: seed the demonstration, or (a named database) declare what is there *)
Start(g) ==
  /\ up[g] = "down"
  /\ up' = [up EXCEPT ![g] = "starting"]
  /\ \E do \in {"seed", "ensure"} :
       /\ kind = "static" => do = "seed"
       /\ job' = [job EXCEPT ![g] = [do |-> do, t |-> NoTable]]
       /\ todo' = [todo EXCEPT ![g] = IF do = "seed" THEN Seed ELSE EnsureCatalog]
       /\ demo' = (demo /\ do = "seed")
  /\ known' = [known EXCEPT ![g] = ToSet(decls)] /\ full' = [full EXCEPT ![g] = Filled]
  /\ UNCHANGED <<kind, store, got, seen, always, made, bounds>>

Ready(g) ==
  /\ Starts(g) /\ Done(g)
  /\ Rest(g) /\ up' = [up EXCEPT ![g] = "serving"] /\ UNCHANGED <<todo, demo, bounds>>

Crash(g) ==
  /\ up[g] # "down" /\ faults + crashes < MaxFailures
  /\ Rest(g)
  /\ up' = [up EXCEPT ![g] = "down"] /\ todo' = [todo EXCEPT ![g] = <<>>] /\ crashes' = crashes + 1
  /\ UNCHANGED <<demo, faults, jobs>>

Step(g) ==
  \/ CreateColl(g) \/ PutMapping(g) \/ DropColl(g) \/ DeleteDecl(g)
  \/ IndexDoc(g) \/ InsertMany(g) \/ UpdateWhere(g) \/ DeleteWhere(g) \/ Search(g)
  \/ ReadDecls(g) \/ CountDecls(g) \/ ListNames(g) \/ Mapping(g) \/ Sample(g)
  \/ DeclIndexExists(g) \/ DeclIndexCreate(g) \/ PutDecl(g) \/ InsertDecl(g) \/ InsertDecls(g) \/ PushCols(g) \/ GetDecl(g)
  \/ ExistsIndex(g) \/ Count(g) \/ Ensure(g)

Stop == jobs = MaxJobs /\ (\A g \in Gates : job[g] = Nothing /\ up[g] = "serving") /\ UNCHANGED vars

Next ==
  \/ \E g \in Gates : Step(g) \/ BeginRead(g) \/ BeginWrite(g) \/ BeginDDL(g) \/ Answer(g) \/ Start(g) \/ Ready(g) \/ Crash(g)
  \/ Stop

Spec == Init /\ [][Next]_vars

(***************************************************************************)
(* Properties                                                              *)
(***************************************************************************)
(* What is stored and what is answered is of the types the code knows: every type a gateway    *)
(* declares or maps is one it reads back (kindToES, esTypeToSQL; kindToSQL, bsonSQLType, sqlType). *)
TypeOK ==
  /\ DOMAIN coll \subseteq TableNames
  /\ \A t \in DOMAIN coll : \A f \in DOMAIN coll[t].fields : coll[t].fields[f] \in EsNames
  /\ \A i \in DOMAIN decls : decls[i].table \in TableNames
                          /\ \A x \in {decls[i].cols} \cup ToSet(decls[i].again) : \A c \in DOMAIN x : x[c] \in SqlNames
  /\ \A g \in Gates : \A x \in got[g] : x.name \in TableNames /\ \A c \in DOMAIN x.cols : x.cols[c] \in Types
  /\ \A g \in Gates : up[g] = "down" => job[g] = Nothing /\ todo[g] = <<>>
  /\ decls # <<>> => declIndex

(* A schema put together from several calls (Describe, Scan), while other gateways create, alter *)
(* and drop tables: each table in it had these columns, and was declared with this key, at some  *)
(* moment since the call began; and no table is missing that was there all the time and whose    *)
(* columns the store did not refuse.  Once a call has failed, a table that "sampled" tells of    *)
(* may have the columns of fewer documents than it samples, none at the least: its inferColumns  *)
(* takes a cursor that fails for one at its end, and Describe for whole what may be cut short.   *)
(* (Scan of "hits" takes its columns from what it scanned.)                                      *)
DescribeTrue ==
  \A g \in Gates : Reading(g) /\ todo[g] = <<>> =>
    /\ \A x \in got[g] :
         CASE kind = "declared" -> \E d \in seen[g].decls : x = ToTable(d)
           [] kind = "static"   -> x \in StaticSchema
           [] kind = "hits" /\ job[g].do = "scan" -> TRUE
           [] kind = "sampled"  -> \/ <<x.name, x.cols>> \in seen[g].cols
                                   \/ faults > 0 /\ <<x.name, x.cols>> \in seen[g].part
           [] OTHER -> /\ <<x.name, x.cols>> \in seen[g].cols
                       /\ kind = "hybrid" /\ job[g].do = "describe" =>
                            \E d \in seen[g].decls : d.table = x.name /\ d.key = x.key
    /\ job[g].do = "describe" => always[g] \subseteq {x.name : x \in got[g]}

(* What a starting gateway finds it leaves alone, whoever else starts or works at the same time: *)
(* a table that has had documents ever since it began, and whose count or existence it was told, *)
(* and a declaration that has been there ever since, of a table it did not create itself         *)
(* (seed, seedIfEmpty, seedCatalog, EnsureCatalog).                                              *)
StartKeeps ==
  [][\A g \in Gates : Starts(g) /\ todo'[g] # todo[g] =>
       /\ \A t \in full[g] : t \in DOMAIN coll' /\ coll'[t] = coll[t]
       /\ \A d \in known[g] : d \in ToSet(decls') \/ d.table \in made[g]]_vars

(* Gateways that start together, none of which dies or misses an answer, leave nothing of the    *)
(* demonstration out: when the last of them serves, each of its tables is there, none is empty,  *)
(* and each is declared unless it was there before (whichever of them filled it).  That its rows *)
(* and declarations are there once is another matter (SeededOnceEach).                           *)
SeededTogether ==
  demo /\ faults = 0 /\ crashes = 0 /\ (\A g \in Gates : up[g] = "serving") =>
    \A i \in DOMAIN Demo :
      LET t == Demo[i].name IN
      /\ Docs(t) # <<>> \/ (kind = "hybrid" /\ t \in DOMAIN Foreign)
      /\ kind = "declared" \/ (kind = "hybrid" /\ t \notin DOMAIN Foreign) => Declared(t)

(* "Idempotent (only fills empty collections)" (mongodb-community-2/main.go:64) is of one start   *)
(* after another: seedIfEmpty counts and inserts in two calls, so each of the gateways that      *)
(* start together may add the rows once more, and the declarations.  No gateway does so twice, a *)
(* table that had documents gets none, and where the demonstration is known by its indices       *)
(* ("hybrid") the creation of the index lets one gateway in: rows and declarations are there     *)
(* once.                                                                                         *)
SeededOnceEach ==
  demo /\ jobs = 0 /\ faults = 0 /\ crashes = 0 =>
    \A i \in DOMAIN Demo :
      LET t     == Demo[i].name
          was   == IF t \in DOMAIN Foreign THEN Foreign[t].docs ELSE <<>>
          times == IF kind = "hybrid" THEN 1 ELSE Cardinality({g \in Gates : up[g] # "down"})
      IN  /\ Len(Docs(t)) <= IF was # <<>> THEN Len(was) ELSE times * Len(Demo[i].docs)
          /\ Cardinality(At(t)) <= times
=============================================================================
