# Verification of haystak-tds-spi

haystak-tds-spi lets any data source be queried as if it were SQL Server: a
Go server speaks TDS, a T-SQL engine plans and evaluates, and a `tds.Backend`
supplies rows.  This directory holds TLA+ models of that program, the TLC runs
that check them and the TLAPS proofs about them.  Line numbers are those of
the repository's files.

## The system

| part | where | state it keeps | operations |
|---|---|---|---|
| connection server | `server/server.go` | one goroutine per connection; `reg` | `Serve`, `handle`, `handshake`, `serve`, `handleMessage`, `CloseSessions` |
| session registry | `server/registry.go` | `nextSPID`, `sessions`, `conns`, one mutex | `add`, `attach`, `remove`, `live`, `snapshot`, `ownSession` |
| framing | `internal/wire/framing.go` | none between messages | `ReadMessage`, `WriteMessage` |
| message codecs | `internal/wire/{prelogin,login7,rpc,result,tokens,tls}.go` | none | parse a request, build a token stream |
| session | `internal/engine/session.go` | `db`, `rowCount` | `ExecBatch` (flat path and control-flow path) |
| temp tables | `internal/engine/temptable.go` | `tempStore`, carried in the context | `create`, `drop`, `insertRows`, `runTempQuery` |
| control flow | `internal/extensions/procedures/control` | `scope`, `state` of one batch | `RunAll`, `execStmt` |
| stored routines, views | `internal/extensions/{procedures,routines,views}` | in the backend's `RoutineStore` | `ExecProc`, `ExpandView`, DDL |
| query engine | `internal/engine/engine.go`, `bind.go` | none between statements | `queryOne`, `runParsed`, `joinQuery`, `unionRun`, `runRecursiveCTE` |
| schema cache | `internal/engine/schemacache.go` | one query's `schemas`, `routines`, `names` | `get*`, `put*` |
| row executor | `internal/exec` | none | `ApplyWith`, `Join`, aggregates, windows, `evalTruth` |
| batch front end | `internal/extensions/batch` | none | `Split`, `Resolve` |
| parser | `internal/tsql`, `internal/fold` | none | `Parse`, `ParseWrite` |
| scalar functions | `internal/extensions/functions` | none | one function each |
| catalogue views | `internal/extensions/{infoschema,sysviews}` | none | rows computed from a `Describe` |
| built-in procedures | `internal/engine/proc.go` | none | `sp_tables`, `sp_columns`, `sp_help`, ... over a `Describe` |
| SPI | `tds` | none | interfaces, value types, a conformance suite |
| reference backend | `examples/inmem` | tables, routines, one mutex | `Scan`, `Insert`, `Update`, `Delete`, DDL, `Describe` |
| gateways | `examples/{mongodb,elasticsearch,opensearch}-community*` | a store shared with other gateways | seed, declare, `Describe`, `Scan`, writes and DDL, each a sequence of calls |

Connections share the registry, the embedder's hooks (`Auth`, `Audit`,
`SessionVisibility`) and the backend.  A connection handles one message at a
time; nothing reads its socket while a batch runs.  `CloseSessions` runs in a
goroutine of the embedder and closes sockets under the connections' feet.  A
statement runs entirely in its connection's goroutine, under one context that
carries the temp store, the session snapshot, the caught error and the schema
cache.

What is hard about them, and what makes each part correct:

| part | hard | correct when |
|---|---|---|
| server, registry | goroutines meet in the registry; CloseSessions works on a copy of it and closes sockets of running goroutines; hooks of the embedder may panic; the clean-up is a stack of defers | the DMVs list exactly the live sessions, under distinct spids; CloseSessions ends exactly the matching ones; every login is audited out; a session sees no other without the privilege; no LOGIN7 in cleartext; every message gets its one answer; a dead connection is given up |
| framing | packets cut messages anywhere; lengths and ids wrap; the peer may die at any byte | whole messages, in order, each once; both ends stay in step; no reader waits for ever |
| session, control flow | two interpreters for one language; statements run on throw-away `Session`s; errors leave through TRY blocks, procedures and loops; a batch may fail after it changed the session | client and session agree on the database; SET ROWCOUNT caps what follows; a temp table is of its batch; an error is visible in its CATCH only; results before a TRY survive; procedures leave their caller alone; every batch is answered |
| joins | conjuncts go below outer joins; keys of one side filter the other; names are attributed by text; a correlated subquery is run row by row; other connections write between two scans; the caller may leave | the answer is that of the plain join; for a caller who left no further source is joined |
| reference backend | readers hold slices of arrays that writers change in place; `Describe` takes no lock | a statement shows in its table only; a scan is not disturbed by INSERT, DELETE and DROP; the order lists every table |
| set operations, recursive CTEs, paging | NULLs equal for UNION and not for `=`; ALL keeps counts; recursion is cut at a depth | counts of every row as the standard has them |
| schema cache | a description is several calls, between which others change the catalogue; calls fail; a name has several spellings | a query is told of one catalogue, not older than itself, and asks once |
| catalogue views, functions, procedures | four tongues for one catalogue, written apart: names, ids, ODBC codes, widths | the references the views keep lead to rows; all reporters say the same of a table |
| gateways | several start at once over one store; each operation is several calls, any of which may be refused, or done and its answer lost; a gateway may die between two | a start leaves alone what it finds; what `Describe` says was there; gateways that start together leave nothing of the demonstration out, and none fills it twice |
| parser | what a clause does not consume must refuse the statement; look-ahead decides between readings | a statement is read as it was meant; nothing accepted is left out of what is understood |
| functions, codecs | formats, widths | stateless |

## Modules

| module | models | source |
|---|---|---|
| `SessionRegistry` | the registry's two maps, `nextSPID` and its methods as operators | `server/registry.go` |
| `Server` (extends it) | accept, handshake, serve loop, deferred clean-up, CloseSessions, clients | `server/server.go` |
| `SessionLedger` | what the server promises of a session's life (abstract) | - |
| `ServerProofs` | theorems about `Server` | - |
| `BatchSession` | `ExecBatch`, the control-flow interpreter, `EXEC`, temp tables | `engine/session.go`, `routines_glue.go`, `temptable.go`, `procedures/control/exec.go`, `procedures/proc.go` |
| `BatchSessionProofs` | theorems about `BatchSession` | - |
| `Framing` | `WriteMessage`, `ReadMessage` over a byte stream | `internal/wire/framing.go` |
| `MessageChannel` | what framing promises (abstract) | - |
| `FramingProofs` | theorems about `Framing` | - |
| `Joins` | `joinQuery`, pushdown, semi-join, bare names, `exec.Join`, three-valued logic | `engine/engine.go`, `exec/join.go`, `exec/truth.go` |
| `JoinProofs` | theorems about `Joins` | - |
| `RowOps` | what a SELECT does with its rows: grouping, windows, ORDER BY, DISTINCT, paging | `exec/exec.go`, `aggregate.go`, `window.go`, `fold/fold.go` |
| `SelectStatement` | set operations and recursive CTEs over `RowOps` | `engine/engine.go` |
| `SelectProofs` | theorems about `SelectStatement` | - |
| `InMem` | the reference backend's tables as Go slices over a heap of arrays | `examples/inmem/inmem.go` |
| `TableStore` | what a backend promises of its tables (abstract) | - |
| `InMemProofs` | theorems about `InMem` | - |
| `SchemaCache` | what one statement learns of the catalogue, and when | `engine/schemacache.go`, `sysviews`, `infoschema`, `engine.go` |
| `CatalogueTypes` | the names, ids, codes and widths of a column type | `exec/value.go`, `sysviews`, `infoschema`, `engine/proc.go` |
| `CatalogueViews` | the rows of sys.* and INFORMATION_SCHEMA.*, and the functions over them | `sysviews/*.go`, `infoschema`, `extensions/functions` |
| `CatalogueProcs` | the rows of the sp_* procedures and how a call's arguments are found | `engine/proc.go` |
| `Catalogue` (extends both) | statements that read the catalogue while it changes | the same |
| `CatalogueProofs` | theorems about `SchemaCache` and `Catalogue` | - |
| `Gateways` | the MongoDB, Elasticsearch and OpenSearch gateways over one store | `examples/{mongodb,elasticsearch,opensearch}-community*` |
| `GatewayProofs` | theorems about `Gateways` | - |
| `Tokens` | tokens, the parser's cursor, names, hints, types | `tsql/lexer.go`, `parser.go` |
| `SelectParser` | the parse functions of SELECT | `tsql/parser.go` |
| `WriteParser` | the parse functions of writes and DDL; which parser a statement meets | `tsql/write.go`, `engine/engine.go` |
| `SqlText` | how a client writes a statement down, in two forms (reference) | - |
| `Parser` | client and engine: write, mistake, read | `engine/engine.go` |
| `MC*` | instances for TLC | - |

Operators named `Bug...` are mutated forms of the definition that follows them:
a property is only kept if one of them breaks it.

**Server.** One action is what a goroutine does between two points where another
can observe it: a blocking read, an acquisition of the registry's mutex, a call
of a hook.  `pc[c]` is that point; `sessions` and `conns` are the registry's
maps; `sock` and `client` are the two ends of the connection; `Register`,
`AttachConn`, `AuditLogin` are lines 214-216 of `server.go`, `RemoveSession`,
`AuditLogout`, `CloseConn` are `handle`'s defers in the order they run.
`HookPanics` is `handle`'s recover: it runs the defers registered so far, which
inside the handshake is `conn.Close` alone.  A statement is one step
(`FinishExec`): it ends in a result or an error, what it does is `BatchSession`.
`CloseSessions` copies `conns` in one step, then closes one matching connection
at a time.  `audit`, `owed` are history.

**BatchSession.** `calls` is the Go stack: one activation of `ExecBatch` per
`EXEC`, each with its open blocks (`stack`).  `HasControlFlow` decides between the
flat path and the interpreter, as in the code, and `Deliver`, `ReturnToCaller`,
`AnswerClient` keep the differences between the two paths (which results are kept,
where the row cap applies, how the new database is reported).  `Statement` is what
can be parsed: a batch, a procedure and a block are sequences of its members.
`Fail` unwinds activations and blocks to the innermost TRY and cuts the results to
its mark; `Panic` passes every CATCH.  A SELECT is abstracted to where it read and
how many rows it has; IF and WHILE conditions are nondeterministic.

**Framing.** `WriteHeader`/`WriteBody` and `ReadHeader`/`ReadBody` are the
loop bodies of the two functions; `stream` holds headers and bytes, `Die` drops
any suffix of it.  Lengths are modulo `Width`, packet ids modulo `PidWidth`.

**Joins.** `Qualify` is `qualifyBareWhere`; then `ScanFrom`; per join
`CheckCancelled`, `ScanNext` (the scan), `Evaluate` (the ON, over the pairs of rows)
and `JoinNext` (what `exec.Join` makes of them); then `Filter`, `Evaluate` (the WHERE)
and `Finish`.  A correlated subquery scans its table once for each row (`makeSubFn`,
`engine.go:605`, called through `engine.go:871` and `exec/join.go:26`): `Evaluate` then
takes one row at a time, from the `store` as it is, and `Write` may fall between two
rows; a condition without a subquery is evaluated for all rows at once.  `rows` is
what the code joins, `whole` what it would join without pushdown, from the same
contents: every scan reads `store` when it runs.  A
backend may ignore any part of what is pushed to it (`Scan`): it returns at
least the matching rows and at most the table.  A scan, also a subquery's, may fail
(`JoinFails`).  A joined row maps each source to
a row, `NullRow` where an outer join found none.  Tables are sets: duplicates,
APPLY is left out, and what follows the WHERE is in `RowOps`.

**RowOps, SelectStatement.** A value is the sequence of the words `%v` prints for
it, so that `RowKey`, which prints a whole row with blanks in between, is the
words of its columns in a row: two rows may have one key.  `StableOrder` is Go's
stable sort of up to twenty elements, an insertion sort, which matters because
`Less` is no order when keys have NULLs.  `RowOps` has no state: `ApplyWith`,
`Aggregate` and `ComputeWindow` are the functions of those names over the rows a
WHERE has kept.  `SelectStatement` is the statement around them: one action is
what is computed between two scans of the backend (`RunArm`, `RunAnchor`,
`RunRecursiveArm`), and `Write` may change the tables at any of them.
`ArmQuery` and `WholeQuery` are what `unionRun` leaves of an arm's TOP, ORDER BY
and FETCH.  `read`, what each arm read, is history.  Left out: case-sensitive
collations, HAVING other than on COUNT(*), and results that are floats.

**InMem.** `heap` holds arrays, a slice is an array and a length, `AppendTo` is
Go's `append`: in place while there is room, else into a new array of twice the
size.  Writers hold the mutex for their whole statement, so a statement is one
step; `Scan` copies the slice of rows and not the rows; `Describe` walks
`b.order` one element per step, since it takes no lock.  Go's map and cell races
are not modelled: a read sees a cell before or after a write.

**SchemaCache.** A statement is a plan: the requests its views, functions and
procedures will make, in order.  `Introspect` to `Put` is one description, call
by call of the backend (`Databases`, then one `DescribeDatabase` per database,
or one description where the backend has none); `UseCached` and `AnswerCached`
are the hits.  `ChangeTables`, `ChangeRoutines` are other connections, between
any two calls.  Errors are told apart as the code does: a database that cannot
be described is skipped, a list of routines that cannot be had is empty *and
remembered*, an introspection that fails ends the statement unless the asker
goes on without (`soft`).  `answers` is what was told so far; `seen`, `seenRts`
and `lost`, what the backend had and failed since the statement began, are
history.  Without databases only `Only` exists.

**CatalogueTypes, CatalogueViews, CatalogueProcs, Catalogue.** The reporters as
functions of one description: a view is a set of rows, a row a record of the
columns that tell something.  Names are sequences of words, so that `PK_Orders`
is `<<"PK">> \o <<"Orders">>`; `Hash` says which words share an `OBJECT_ID`.
`Catalogue` puts them over `SchemaCache`: `Told` are the answers of a statement
with what was asked, and the properties compare what two reporters made of them.

**Gateways.** `kind` is the gateway (five, by where the catalogue comes from);
`coll` maps the names of the indices or collections there are to their fields and
documents, `decls` lists the declarations in the order they were made; `todo[g]`
is the sequence of calls of the store that the operation under way has left, each
an action that may be answered, refused, or done with its answer lost (`Fail` and
what each handler does then are the code's).  `ListNames` asks with the gateway's
pattern: in Elasticsearch one that names an index that is not there is an error
(`elasticsearch-community/es/es.go:63`); `Sample` of mongodb-community takes a
cursor that fails for one at its end (`mongodb-community/mongo/mongo.go:68`), so
its columns may be those of fewer documents; `again` in a declaration is a column
that mongodb-community-2 `$push`ed though it was there (`mongo/mongo.go:200`).  A
gateway dies between two calls (`Crash`) and starts again.  Starting is `seed`,
`seedIfEmpty`, `seedCatalog`, `EnsureCatalog`, as `main` orders them.  `seen`,
`always`, `full`, `known`, `made` are history for the properties.  Values are
abstract, with their kind and their rank among those that compare.

**Tokens, SelectParser, WriteParser.** Every parse function is an operator from a
parser (tokens, position, value) to a parser; `Then` is `if err != nil { return
}`.  A query is a record, a value or condition a tagged tuple, as the Go structs
have them; BETWEEN, IIF, `VALUES` in FROM, ROLLUP, CUBE and an ORDER BY ordinal
come out in the form the code gives them.  `Rule` ties the mutual recursion
together.  `Understand` is the engine's order: a write if it begins like one,
else a SELECT.  `SqlText` writes a tree as T-SQL, with only the parentheses it
needs or in a longer form (`sugared`: IIF, CONVERT, ROLLUP, hints, AS, redundant
parentheses), from the meaning of the constructs and not from the parser; it is
what the parser is compared with.  Left out: the characters of the lexer (quotes,
comments, numbers with a point or an exponent), and case.

## Runs

| run | question | states |
|---|---|---|
| `server_sessions` | Two connections, two logins, one CloseSessions caller, a panicking visibility hook: `RegistryIsLive` (both maps of the registry), `VisibilityRespected`, `AuditBalanced`, `CloseEndsAttached`, `OnlyMatchingClosed`; `LedgerKept`: Server implements SessionLedger | 470 k |
| `server_messages` | One connection, five kinds of message, all hooks panicking: `NoCleartextLogin`, `RepliesMatch`, and under fairness `MessageHandled`, `GivenUp` (a dead connection's goroutine ends, its session is neither listed nor reachable, unless its login audit panicked) | 36 k |
| `session_batches` | Some 700 batches, each followed by one of five that show what it left: `SessionFollows` (database, row cap and temp tables follow the batches), `CatchHasItsError` (each CATCH sees the error it caught, its own again after an inner one, and nothing else sees one), `CallersKept` (a procedure or a failing TRY takes nothing of its caller's), under fairness `BatchAnswered` | 34 k |
| `framing_channel` | Two messages of every length from nothing to two packets and a bit, any death: `WholeMessages` (Framing implements MessageChannel), `InStep`, under fairness `Delivered` | 38 k |
| `joins_plans` | 900 queries over three contents, one write of another connection between any two scans, of sources or of subqueries: `PushdownSound`, `AmbiguousLeft`, `CancelPrompt` | 1.3 M |
| `inmem_store` | Two tables, four writing statements, one reader: `StoreKept` (InMem implements TableStore), `ReadersUndisturbed` | 73 k |
| `select_statements` | Some 200 SELECTs over three contents, one write of another connection: `AnswersMeant` (counts of rows of set operations, groups with their aggregates, ways down a hierarchy), `OrderObeyed` (windows and pages), `EngineProgresses` | 16 k |
| `catalogue` | Twenty-four statements over views, functions and procedures, one change by others, one failing call, with and without databases: `OneFreshCatalogue`, `AskedOnce`, `ReferencesJoin` (fifteen references), `ReportersAgree` | 52 k |
| `gateways` | Two gateways of each kind that start, work and die over one store, one call or one gateway failing: `DescribeTrue`, `StartKeeps`, `SeededTogether`, `SeededOnceEach` | 638 k |
| `parser` | Forty statements over every clause, in both forms, untouched or with any one token left out, swapped with the next, or added, of every kind and every keyword: `ReadAsWritten`, `NothingIgnored` | 146 k |
| `server_close_missed`, `joins_selfjoin` | each shows one sentence of the documentation violated (below) | - |

Where a module has a `TypeOK` that guards something, its run checks it too.

### Bounds

- Two connections are every pair of sessions that can meet in the registry; a
  third adds no new meeting, since every operation is about one spid, and the
  theorems of `ServerProofs` hold for any number.
  `server_messages` has one connection because the serve loop shares nothing.
- Two messages per client are a message and what comes after it.
- A payload of five bytes over packets with two bytes of body has every case of
  `len` against `maxBody`: none, less, equal, more, twice.  `PidWidth = 2` makes
  ids wrap in the second packet.  Two messages show whether one leaks into the next.
- `MaxWhile = 2` stands for a million: the guard's boundary is met; `MaxCalls = 3`
  lets a procedure call a procedure.  Two batches: what one leaves for the next.
- Three sources are a source between two joins, which is what `suppliesNulls` is
  about; one write (`MaxWrites`) puts a source's contents, or a subquery's, before and
  after it; `SemiJoinCap = 1` has key sets below and above the cap; `JoinProofs`
  removes these bounds.
- Chains of four arms have every pair and triple of set operators; tables of five
  rows have NULLs, duplicates and texts equal but for case, in every position of
  a partition.  `maxRecursionDepth = 3` (100 in the code) is reached by a cycle
  and by a chain of five, and not by the hierarchy that branches.
- Four writing statements over rows of at most two: a table is created or
  filled, grown past an array, cut, and written to again.  Tables, and values,
  are interchangeable (symmetry); five statements were checked once with
  the same result (640 thousand states).

- Two databases are the one a request means and one it does not; a name is
  written in two ways, one is unknown.  One change falls between any two calls;
  two statements show that nothing is kept between them.
- Two gateways are the pair that races; two jobs each are what one does and what
  it finds afterwards.  Faults and crashes share the bound of one: two of them
  were too many states.  One table is changed (`ChangedTables`), the other shows
  what is left alone; `SampleSize = 1` and `ScanSize = 2` are below and at the
  number of documents, as 100 and 10000 can be.
- One mistake per text (`MaxEdits`); the strays added are every keyword, every
  other kind of token, and the identifiers the parser knows as words (OVER, WITHIN,
  CAST, ...).  Every parse function is reached by a statement, most by
  several, with what may precede and follow it.

### Fairness

- `Server`: every runnable goroutine is scheduled (Go), hooks and statements
  return, a read from a peer that has gone fails.  Nobody is made to connect,
  send or leave; CloseSessions gets no fairness.
- `BatchSession`: `handleMessage` runs a batch to its end before it reads on, so
  `Step` is weakly fair.  Termination then rests on the guard of WHILE and the
  finite batches, as in the code; recursion of procedures is cut by `MaxCalls`,
  which the code does not have.
- `Framing`: both ends keep running; none is made to send or to die.

Deadlock checking is off where the system may rightly stop: all connections
over, all batches sent, an answer given.

### Where the code and its documents part

- **`server_close_missed`** A session is in the DMVs from `reg.add`
  (`server.go:214`) but only endable from `reg.attach` (215): CloseSessions
  between the two returns without ending it, against "ends every live session
  for which match reports true" (`server.go:56`).  `CloseEndsAttached` is what
  does hold.
- **`joins_selfjoin`** In `FROM emp JOIN emp m` a conjunct on `emp.x` is also
  pushed into the scan of `m`, whose table has that name: rows are lost.
  `PushdownSound` holds for `Clear` queries, where no alias is another source's
  table.

Met while modelling, and stated as a premise or in the wording of a property, or only
here, instead of a run:

*Sessions.*  A login audit hook that panics leaves its session listed for ever, the
deferred `remove` not being registered yet (`server.go:216`; `HookPanics`), against
"removed on disconnect" (`CHANGELOG.md:232`) and "every live connection"
(`registry.go:14`).  `GivenUp` makes an exception of it, and the theorems of
`ServerProofs` assume that the hook does not panic.  A batch that
ran USE and then fails keeps the new database but is answered with an ERROR
alone, so the client is not told (`server.go:299`, `session.go:80`, `:112`, against
`CHANGELOG.md:373`); `SessionFollows` is what holds, until an error.  In a batch
with control flow every statement runs on a Session of its own, so SET ROWCOUNT
caps nothing there.

*Queries.*  `fold.RowKey` prints a row's columns with blanks between them
(`fold.go:79`), so `('1 2', '2')` and `('1', '2 2')` have one key and UNION drops
one of them, as DISTINCT, GROUP BY and PARTITION BY would; `AnswersMeant` is of
rows that do not print alike (`Separable`).  A correlated `IN` over a temp table
is pushed into a scan without a subquery evaluator and drops every row
(`engine.go:905`, against "a safe pushdown hint for that table's scan",
`engine.go:1004`; `NoLocalSub`).  Such a subquery is run once per row and nothing
asks for the caller in between, so "a cancelled caller stops the query"
(`CHANGELOG.md:66`) is true between sources (`CancelPrompt`) and not within an ON
or a WHERE; rows on either side of a write meet different contents of it
(`SubSteady`).  A bare column both sides of a self-join have is given to the last
alias (`AmbiguousLeft`'s condition).  NULL ties with every value in ORDER BY, so
rows around it may stay out of order (a condition of `OrderObeyed`); SELECT
DISTINCT over groups keeps duplicates, a limit of 0 is none, the UNION between two
anchors of a recursive CTE is read as UNION ALL, and a hierarchy deeper than 100
is cut without an error.

*Reference backend.*  A scan shares its rows with later UPDATEs and ALTER TABLEs
(`inmem.go:292`, `:334`, `:382`, `:399`), against "concurrent reads see a stable
snapshot" (`examples/inmem/README.md:22`); `Describe` dereferences a table dropped
meanwhile; both are conditions of `ReadersUndisturbed`.  An ALTER TABLE that drops
several columns fails on an unknown one after the first are gone (`inmem.go:394`).

*Catalogue.*  `DB_ID('x')` is a hash of the name and `sys.databases.database_id` a
position (`value.go:499`, `metadata.go:58`).  `sys.foreign_keys.object_id` counts
from 200 and `foreign_key_columns.constraint_object_id` is a hash
(`sysviews.go:361`), though "oid is the one object_id scheme [...] so the catalog
views join" (`sysviews.go:893`): this reference does not join, and is none of the
fifteen of `ReferencesJoin`.  `index_columns`, `key_constraints` and `sysindexes`
number indexes by position, `sys.indexes` does not unless the clustered index
comes first (`NumberedAlike`).  Names that hash alike, or differ in case, share or
lose an `OBJECT_ID`.  TABLE_CONSTRAINTS has no CHECK or UNIQUE, INDEXPROPERTY no
synthesized key, a table's key is called `PK_` and the table whatever its index is
called, and COL_LENGTH does not look at the declared type.  With a declared type
such as `money`, "`sys.columns`, the `sys.types` join [...] report that exact
type" (`CHANGELOG.md:247`); but `sys.columns` has the numbers of money,
smallmoney, text, ntext and xml (`sysviews.go:961`) and `sys.types` no such rows
(`sysviews.go:331`), so the join loses the column (`Unlisted`, a condition of
`ReferencesJoin` that its proof asked for).  Where the backend declares an index
or foreign key over a column in another case than the column's, sp_statistics and
sp_fkeys spell it as the index does and COL_NAME as the column; sp_helpindex lists
an index without columns and sp_statistics does not; sp_special_columns drops key
columns that the table lacks and sp_pkeys lists them (`WellNamed`).  Two databases
equal but for case have one id; table types are lost where there are several
databases; routines that cannot be listed are none, silently.  Catalogue functions
outside a FROM, and over joined views, ask for all databases: COL_NAME then
answers from the last one with a table of that name. `sp_executesql` substitutes
parameters again in what it has substituted, and in literals.

*Gateways.*  EnsureCatalog "never overwrites an existing catalog" (`es.go:274`),
but two that race overwrite (Elasticsearch) or duplicate (MongoDB) a declaration
made since; one that seeds beside one that runs EnsureCatalog, or one that dies
between creating an index and declaring it, can leave a table of the demonstration
undeclared for good (`SeededTogether`'s premise).  `count` of
elasticsearch-community is 0 on an error, so documents are added to an index that
is not empty.  Seeding is "Idempotent (only fills empty collections)"
(`mongodb-community-2/main.go:64`; `mongodb-community-3/main.go:46` likewise) of
one start after another: two that count before either inserts (`main.go:131`,
`:138`) both insert, and every row, and every declaration, is there twice.
`SeededOnceEach` is what holds: once for each gateway that started, once at all
where the creation of an index decides, and never into a table that had documents.
mongodb-community's `inferColumns` does not look at `cur.Err()`
(`mongo/mongo.go:60`): a cursor that fails leaves a table described by the
documents read so far, or by `_id` alone, and no error (`DescribeTrue` has it as
such).  Adding a column that is there makes a second one in mongodb-community-2's
declaration.  A pattern that names an index since dropped is an error of the whole
Describe.  Scan infers columns from its own hits and Describe from a hundred
documents; `<>` matches documents that lack the field; a duplicate `_id`
overwrites and counts as two; an INSERT that fails leaves the rows before;
DropTable of the Elasticsearch gateway does not look at the answers; a collection
dropped between being listed and sampled is described by one column `_id`.

*Parser.*  A condition may not open with a parenthesised value, `(a + b) * 2 > 3`
or `(SELECT ...) = 3`: the parenthesis is taken for one of a condition
(`parser.go:1743`) and the statement refused; so is `FROM t OPTION (...)`, whose
OPTION is read as an alias.  Read, and understood otherwise than written: NOT
before IS is dropped; the server of a four-part name, the schema of a function and
of a table in DDL; TOP's number where there is a FETCH; DISTINCT and the separator
of an aggregate with OVER; surplus column names after VALUES; what is in the
parentheses of a type; the alias after an item that began with one; a dot after a
name; DESC after COLLATE, which is taken for a collation.  A name of a CTE given
twice keeps the last; CREATE and DROP DATABASE do without a name; in CREATE TABLE
a table-level PRIMARY KEY becomes a column called PRIMARY, and constraints other
than NULL and NOT NULL are passed over, and a column with neither is not nullable,
where T-SQL makes it nullable: `SqlText` writes a NOT NULL column without a
constraint and so follows the code here.  `NothingIgnored` is about tokens in
number, and leaves out AS, NOT, types, collations and CREATE and ALTER TABLE for
these reasons.  Two words that are lost it names (`WindowDistinct`,
`SecondAlias`), and the run meets both, one token away from an accepted text:
DISTINCT in `SUM(a) OVER (...)` (`parser.go:638`, `:678`), and the alias after an
item that `=` has given one in front (`parser.go:620`).  Everything else of an
accepted text is accounted for.

## Proofs

All are checked by TLAPS for every value of the constants that satisfies the
modules' assumptions.

**Types** (`ServerProofs!TypeCorrect`, `BatchSessionProofs!SessionTypes`,
`JoinProofs!JoinTypesCorrect`, `CatalogueProofs!CacheTypes`,
`GatewayProofs!GatewayTypes`).  The last is more than typing: that every type a
gateway declares or maps is one it reads back goes by the code's conversions,
and that nothing is declared without an index of declarations goes by the order
of the calls still to be made, `TypeInv`.

**No cleartext login** (`CleartextCorrect`): a state past PRELOGIN has TLS; the
invariant is about `pc` and `tls` alone.

**Replies** (`ServerProofs!RepliesCorrect`).  `AnswersInv` says where the count
of the messages taken and that of the answers differ: by the message being
handled (`Handled`), and for good once a write has failed (`CanFail`).  Each step
of a goroutine is one of five things as far as messages go (`Untouched`,
`Taken`, `Started`, `Answered`, `Skipped`) or a failed write.

**Sessions** (`ServerProofs`), if the audit hook does not panic on a login
(`"audit_login" \notin Panics`).  `RegistryIsLive` is not inductive: nothing in it
says that the next spid is fresh or that `conns` points back at its goroutines.
`SessionInv` adds, besides types: `ListInv` (the listed sessions are those of the
goroutines in the right places), `SpidInv` (spids in use are distinct, below
`nextSPID`, and 0 before registration), `EntryInv` and `ReachInv` (who is in
`conns`, and with what) and `TrailInv` (what has been audited at each place).
From it follow `RegistryCorrect` (which is about both maps), `AuditCorrect`, and
`LedgerCorrect`: the refinement of `SessionLedger`, one case per action that
touches the ledger's state and a stutter for the others.

**CloseSessions** (`ServerProofs`), under the same assumption.  `CloseInv` is the
account of a call under way: what it still has to look at (`TodoInv`), that each
session it owed at its start is on that list or closed (`OwedInv`), and what it
reports (`EndedInv`).  Hence `CloseCorrect`, `OnlyMatchingCorrect`; and
`VisibilityCorrect` from `SessionInv` alone.

**Framing** (`FramingProofs`), for any payloads, packet sizes, widths of lengths
and ids, and wherever the connection is cut.  Neither `InStep` nor the refinement
of `MessageChannel` is inductive: neither says what the bytes under way are.
`IInv` does, by a reading of the stream (`StreamInv`): a function that gives each
place the message it is in, how many bytes of that message lie before, and how
many bytes its packet still has, each place following from the one before by a
header (`HeaderRead`) or a byte (`ByteRead`).  It starts where the reader is,
which holds the front of that message (`ReaderInv`), and ends, while the
connection is up, where the writer is (`WriterInv`).  Reading takes from its
front, writing adds at its end, a lost suffix cuts it.  A header and a payload
byte are different items of the stream (`ItemAssumption`), which says in TLA+ what
the offsets say in the code.

**Batches and sessions** (`BatchSessionProofs`), for any statements, blocks,
procedures and depth of EXEC.  `IInv`: the types (`StateTypes`, `Nested`), which
blocks of an activation may have an error and up to where its results go
(`BlocksInv`), what results are due (`ResultsInv`), what the client has still to be
told of the database (`FollowInv`), and `SessionFollows` itself.  Every step but
the first and the last of a batch puts one activation in the place of an inner
one and leaves the outer ones alone; lemma `Replaced` does that case once, and
each action only has to show that its new activation fits.  `Fail` is the case
that needs most: the block whose CATCH takes the error, and its mark.  Hence
`SessionFollowsCorrect`; `CatchHasItsErrorCorrect`, of which the half about states is
`BlocksInv` and the other follows each action's new block; `CallersKeptCorrect` is about
the steps that start in `IInv`.  `StatementAssumption` is what the parser makes: a
statement's parts are statements, a procedure called exists.

**Pushdown** (`JoinProofs!PushdownCorrect`): for any number of sources, any
joins, any WHERE and ON, any contents, writes between scans and a backend that
returns at least the matching rows, the answer is that of the plain join, if
every name is that of one column of one source, no subquery meets a source the
engine evaluates itself, and the table of a correlated subquery stays as it is
(`SubSteady`).  `EvalInv` is about the rows evaluated one by one: those kept are those of
the rows already evaluated (`Candidate` without `todo`) for which the condition holds.
`Agree` is the invariant: among rows that satisfy
every conjunct pushed so far, the joined rows and the plain join's are the same;
a row that a pushed conjunct dropped can only come back as the NULLs of an outer
join, and there `RejectsNulls` drops it again.  `SemiJoinKeeps` is the lemma
that a row some left row joins is never filtered out by the keys.
`AmbiguousCorrect` needs of it only how `where` came to be (`WhereInv`): a name that
qualification changed is a bare one with one owner, which in a scope of distinct
aliases means one column.  `CancelCorrect` is `LateInv`, no scan of a
source has begun late while the caller is there or the loop has not been entered, so
the check at its head lets at most the FROM's be late; and `LeftInv`, where the caller
left says what may still be evaluated for it.

**Statements** (`SelectProofs!EngineProgressesCorrect`): whatever is written
between scans, a step of the engine delivers an arm, enters a later phase of it,
or leaves less to do there.  That what is left is a natural number is what `IInv`
is for: `turn` is at most one past the last arm of the phase, `depth` at most
`maxRecursionDepth`, and those phases are of recursive CTEs only.

**Schema cache** (`CatalogueProofs`), for any databases, spellings, plans,
changes and faults.  That answers are fresh is not inductive: it says nothing of a
description that is half made, nor of what the cache holds.  `CacheInv` follows an
answer on its way: what is being described is fresh as far as it goes
(`PartlyFresh`), what is cached is fresh (`CacheFresh`), every answer of a query is
what the cache holds (`AnswersKept`), so that two answers to one question are one
value, and what is missing from the cache has not been asked for (`Asking`).
Hence `CacheOneFreshCatalogue` and `CacheAskedOnce`.

**Catalogue** (`ReferencesJoinCorrect`, `ReportersAgreeCorrect`), for any tables, routines,
databases and collisions of hashes, on top of the cache: the fifteen references that
the views keep lead to rows, whatever others change while the query runs.  Two views
of one query are told of the same tables and routines (`OneDescription`, from
`OneFreshCatalogue`: a view asks for both parts of one database), their rows depend
on nothing else (`SameRows`), and a lemma for each pair of views finds, for a row of
one, the row of the other.  These rest on what the numbers of two views mean:
`ColIdIs` (a column that is there has its place), `IndexNumber` (numbers by place and
by kind are the same), `ReferencedIs` and `ForeignKeyIs` (whose a key is, and which
table it refers to), `TypeRow`.  `FlattenType` types a concatenation by a least
counterexample, as the library's induction cannot be used.  The premise is the
property's own, `WellKept`: the backend declares indexes and keys over columns that
exist, foreign keys to tables that exist and have a key, views of objects that exist,
the clustered index first, and no type of `Unlisted`.  Nothing in the code enforces
these, and where one fails a row of the view has 0, NULL or no counterpart.
`CatalogueAssumption` says only what the constants are: tables, routines, and requests
made of asks.

`ReportersAgreeCorrect` needs of the cache only its types: it is about one
description, and about one object of it that no other shares its id with, nor its
name in another case.  Each way of looking an object up then finds it alone: by id
the last of the tables, by name the first in any case, by the rows that carry the
one or the other (`SingleIs`, `SingleFound`, `SingleRoutine`).  What remains is
one lemma per pair of lists, between them `PlaceIs` and `ColNameOf` (a column's
name leads to its place, and back), `IndexRowsAre` and `JoinedIndexes`
(sys.indexes joined with sys.index_columns is what sp_statistics says),
`ForeignKeysAre` and `ForeignKeyHas` (the views' foreign keys are exactly those of
the tables), `PkIsNotFk` (the name made up for a key is never one made up for a
foreign key) and `LikeItself` (a name, taken as a pattern, is like itself, also
where it has wildcards).  Its premises are `NumberedAlike` and `WellNamed`: the
clustered index first; index and key columns that the table has, as it spells
them; no index without columns, no two columns equal but for case, no nameless
object; and a session whose database is not one of the system's, of whose tables
sp_columns lists none.  `WellNamed` was found by the proof: every table of the run
has it (see *Met while modelling*).

**Gateways** (`GatewayProofs`), for any number of them over any tables and
demonstration, whatever calls fail and gateways die.  The invariants are about the
calls a gateway still makes.  `KeepInv`, for `StartKeepsCorrect`: a starting
gateway's are none that drop or change a table (`StartCalls`), none that fills one
it was told is filled, and a declaration is put only of a table it has created or
is to create before, unless none was found (`Puts`).  What it found can then only
be changed by others, who cut `known` and `full` down as they do.  `ReadInv`, for
`DescribeCorrect`: the calls of a reader are those of its kind (`ReadCall`), each
table it has was so at some moment (`GotTrue`; once a call has failed, `sampled`'s
may be of fewer documents), and each table that was there all the time it has, or
still asks for (`Covered`).  Assumed of the constants: the demonstration's tables
have columns of known types and documents (`DataAssumption`).

`SeededCorrect` is the hardest of them.  That every table is there when all serve is
not inductive: a gateway is told that a table exists which another has made and
neither filled nor declared yet.  `SeedInv` says, while nothing failed, died or was
dropped (`Quiet`), who still owes what: a gateway past its start finds the
demonstration whole but for what others owe (`Provided`); an index that is empty, or
not declared, has a maker that still holds the calls to fill and to declare it
(`SeedStore`, `Owes`); and those calls cannot be refused, for the maker takes its
tables one at a time, makes before it fills (`Ordered`, `Making`), and what it has
still to index fits the fields of the index that is there (`Filling`).  A step then
lets the store only grow (`Grown`: tables, fields with their types, filled tables
and declared ones stay) and its gateway give up nothing it owes (`Honest`).
Others may add fields meanwhile, never change the type of one.  Assumed besides: there
is a gateway, and what the community-2 demonstration indexes has the columns of its
table, of their types, as in `seed` of the two `main.go`; without this an index could
stay empty, the store refusing what is to fill it.

**In-memory backend** (`InMemProofs`), for any tables, columns, values, readers
and bounds (a table has room for a column: `MaxCols` is not 0).  That statements
are those of `TableStore` says nothing of the arrays they write in, and holds only
because no array is in use twice.  `IInv`: slices fit their arrays and rows have
the table's width (`TableOK`); the columns, the rows' slice and each row of every
table, and `order`, are arrays of their own (`Apart`); `order` lists each table once
(`OrderInv`); and what a reader holds is, while nothing disturbed it, in use by
nothing but the columns or a row of the table it scanned (`Private`), so that an
INSERT or DELETE, which write the slice of rows, an array `Scan` copied, miss it.
Each statement writes only arrays of its table (`Changed`) or `order` and new ones
(`Listed`), and lemmas about these two carry the invariant and the view of every
other table along.  The loops of ALTER TABLE over the rows are a recursive function
(`Loop`), of which what holds after k rows is proved by a least counterexample.
Hence `StoreCorrect`, the refinement, and `ReadersCorrect`.

Left to TLC:

- liveness under fairness (`MessageHandled`, `GivenUp`, `BatchAnswered`,
  `Delivered`), out of the prover's reach;
- `SeededOnceEach`: counting rows over the history of several starts;
- what recursive definitions compute over data: `AnswersMeant`, `OrderObeyed`
  (groups, windows, recursion over rows), and the parser's `ReadAsWritten`,
  `NothingIgnored`, whose parse functions are RECURSIVE.

## Not modelled

- APPLY, PIVOT and view expansion in the engine (the parser has them); aggregates
  that are floats; expressions and conversions of values.
- The batch front end (splitting, variables) and parameter substitution of stored
  routines: text into text, one goroutine, no state.
- The codecs' byte layouts: encoders and decoders without state.
- Scalar functions other than those that read the catalogue: some 2,000 lines on
  strings, dates, numbers and JSON that unit tests reach and a model would restate.
- Views with fixed rows (schemas, configurations, database files, filegroups, data
  spaces, host info); `sp_configure`.
- Of the gateways: drivers, TLS, configuration; conflicts and partial failures of
  `_update_by_query`; `insertMany` is whole or a prefix.
- The lexer's characters; the overflow of an integer literal.
- Recursion of stored procedures without a limit: a Go stack overflow ends the
  process.

## Plan

1. Sessions: `SessionRegistry`, `Server`, `SessionLedger`. Done and proved.
2. `BatchSession`. Done; its safety properties are proved.
3. `MessageChannel`, `Framing`. Done; in step and the refinement are proved.
4. `Joins`. Done; its safety properties are proved.
5. `TableStore`, `InMem`. Done; the refinement and the readers are proved.
6. `RowOps`, `SelectStatement`. Done; `EngineProgresses` is proved, the answers
   stay with TLC.
7. `SchemaCache`, the catalogue's reporters. Done; the cache, the references and
   that the reporters agree are proved.
8. `Gateways`. Done; its properties are proved.
9. The parser. Done; the order of the statements of a batch (splitting) and
   variables could follow it.
