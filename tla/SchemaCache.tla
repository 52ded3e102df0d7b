----------------------------- MODULE SchemaCache -----------------------------
(***************************************************************************)
(* What one statement learns of the backend's catalogue, and when.         *)
(*                                                                         *)
(* A statement asks for the catalogue once per view, function or procedure *)
(* that needs it (an APPLY asks again for every outer row).  An answer is  *)
(* put together from several calls of the backend, between which other     *)
(* connections may change the catalogue, and a query keeps the answers in  *)
(* a cache that lives as long as the query; a procedure has no cache.      *)
(*                                                                         *)
(* A request r is a record: r.schema is the database, as the statement     *)
(* writes it, whose tables are wanted and r.routines the one whose         *)
(* routines are (NoKey: none), r.names asks for the names of the databases *)
(* alone, r.soft says that a failure is not the statement's, r.of is what  *)
(* asks.  A plan is [cached, reqs], reqs a sequence of requests.           *)
(***************************************************************************)
EXTENDS Integers, Sequences, FiniteSets

CONSTANTS
  Dbs,          \* the databases there may be
  Keys,         \* the ways a statement may write one; "" means all of them
  Spelled,      \* key |-> the databases it means
  Filed,        \* key |-> the database whose routines the backend lists for it
  Schemas,      \* what the tables of a database may be
  RoutineSets,  \* what its routines may be
  NoRoutines,   \* no routines
  Absent,       \* in place of the tables of a database that does not exist
  Unread,       \* in place of what the cache does not hold
  NoKey,
  Only,         \* the database of a backend without databases
  Plans,        \* the statements, numbered
  FirstTables, FirstRoutines,                \* what the databases hold in the beginning
  MaxStatements, MaxChanges, MaxFaults       \* bounds of the exploration

Requests == UNION {{Plans[s].reqs[i] : i \in DOMAIN Plans[s].reqs} : s \in DOMAIN Plans}

ASSUME CacheAssumption ==
  /\ Spelled \in [Keys -> SUBSET Dbs] /\ Filed \in [Keys -> Dbs]
  /\ Absent \notin Schemas /\ Only \in Dbs /\ NoKey \notin Keys
  /\ FirstTables \in [Dbs -> Schemas] /\ FirstRoutines \in [Dbs -> RoutineSets]
  /\ NoRoutines \in RoutineSets /\ Unread \notin RoutineSets
  /\ Unread \notin [Dbs -> Schemas \cup {Absent}]
  /\ \A s \in DOMAIN Plans : Plans[s].cached \in BOOLEAN /\ Plans[s].reqs \in Seq(Requests)
  /\ \A r \in Requests : r.schema \in Keys \cup {NoKey} /\ r.routines \in Keys \cup {NoKey}
  /\ MaxStatements \in Nat /\ MaxChanges \in Nat /\ MaxFaults \in Nat

VARIABLES
  multi,      \* the backend has databases (tds.Databaser)
  tables,     \* db |-> its tables, Absent
  routines,   \* db |-> its routines
  pc,         \* "idle", "next", "listing", "describing", "routines"
  plan, todo, \* the statement, and the requests still to be answered
  want, got,  \* the databases to describe yet, and what was described
  names,      \* the databases listed
  schemas,    \* the cache: key |-> tables, Unread
  cachedNames,\* the cache: the databases of the last listing
  listed,     \* the cache: key |-> routines, Unread
  answers,    \* what the statement was told
  seen,       \* history: db |-> every value of tables[db] since the statement began
  seenRts,    \* history: db |-> every value of routines[db] since then
  lost,       \* history: the databases whose description failed since then
  asked,      \* history: key |-> how often its tables were asked of the backend
  askedRts,   \* history: key |-> how often its routines were
  statements, changes, faults

backend == <<multi, tables, routines>>
cache   == <<schemas, cachedNames, listed>>
history == <<seen, seenRts>>
calls   == <<asked, askedRts>>
vars == <<backend, pc, plan, todo, want, got, names, cache, answers, history, lost, calls,
          statements, changes, faults>>

Nowhere == [d \in Dbs |-> Absent]
Request == Head(todo)
Described == [Dbs -> Schemas \cup {Absent}]
Idle == [cached |-> FALSE, reqs |-> <<>>]

Init ==
  /\ multi \in BOOLEAN
  /\ tables = FirstTables /\ routines = FirstRoutines
  /\ pc = "idle" /\ plan = Idle /\ todo = <<>>
  /\ want = {} /\ got = Nowhere /\ names = {}
  /\ schemas = [k \in Keys |-> Unread] /\ cachedNames = {} /\ listed = [k \in Keys |-> Unread]
  /\ answers = {} /\ lost = {}
  /\ seen = [d \in Dbs |-> {tables[d]}] /\ seenRts = [d \in Dbs |-> {routines[d]}]
  /\ asked = [k \in Keys |-> 0] /\ askedRts = [k \in Keys |-> 0]
  /\ statements = 0 /\ changes = 0 /\ faults = 0

(* a new statement: a query starts with an empty cache, a procedure with none *)
BugKeptCache(p) == schemas' = schemas /\ cachedNames' = cachedNames /\ listed' = listed
BugNoMap(p) ==
  /\ schemas' = [k \in Keys |-> Unread] /\ cachedNames' = {} /\ listed' = <<>>
WithSchemaCache(p) ==
  /\ schemas' = [k \in Keys |-> Unread] /\ cachedNames' = {} /\ listed' = [k \in Keys |-> Unread]

Begin(s) ==
  /\ pc = "idle" /\ statements < MaxStatements
  /\ WithSchemaCache(Plans[s])
  /\ pc' = "next" /\ plan' = Plans[s] /\ todo' = Plans[s].reqs
  /\ want' = {} /\ got' = Nowhere /\ names' = {}
  /\ answers' = {} /\ lost' = {}
  /\ seen' = [d \in Dbs |-> {tables[d]}] /\ seenRts' = [d \in Dbs |-> {routines[d]}]
  /\ asked' = [k \in Keys |-> 0] /\ askedRts' = [k \in Keys |-> 0]
  /\ statements' = statements + 1
  /\ UNCHANGED <<backend, changes, faults>>

(* ---- the tables ---- *)
GetSchema(k) == plan.cached /\ schemas[k] # Unread

UseCached ==                      \* a key met before
  /\ pc = "next" /\ todo # <<>> /\ Request.schema \in Keys /\ GetSchema(Request.schema)
  /\ got' = schemas[Request.schema] /\ names' = cachedNames
  /\ pc' = "routines"
  /\ UNCHANGED <<backend, plan, todo, want, cache, answers, history, lost, calls, statements, changes, faults>>

Introspect ==                     \* ask the backend: its databases first, if it has any
  /\ pc = "next" /\ todo # <<>> /\ Request.schema \in Keys /\ ~GetSchema(Request.schema)
  /\ got' = Nowhere /\ names' = {}
  /\ IF multi THEN pc' = "listing" /\ want' = {} ELSE pc' = "describing" /\ want' = {Only}
  /\ UNCHANGED <<backend, plan, todo, cache, answers, history, lost, calls, statements, changes, faults>>

NoIntrospection ==                \* the names alone, or nothing at all
  /\ pc = "next" /\ todo # <<>> /\ Request.schema = NoKey
  /\ got' = Nowhere /\ names' = {} /\ want' = {}
  /\ pc' = IF Request.names /\ multi THEN "listing" ELSE "routines"
  /\ UNCHANGED <<backend, plan, todo, cache, answers, history, lost, calls, statements, changes, faults>>

Databases ==
  /\ pc = "listing"
  /\ names' = {d \in Dbs : tables[d] # Absent}
  /\ IF Request.schema \in Keys
     THEN want' = names' \cap Spelled[Request.schema] /\ pc' = "describing"
     ELSE want' = {} /\ pc' = "routines"
  /\ UNCHANGED <<backend, plan, todo, got, cache, answers, history, lost, calls, statements, changes, faults>>

DescribeDatabase(d) ==            \* one that is gone by now is skipped
  /\ pc = "describing" /\ d \in want
  /\ got' = [got EXCEPT ![d] = tables[d]] /\ want' = want \ {d}
  /\ UNCHANGED <<backend, pc, plan, todo, names, cache, answers, history, lost, calls, statements, changes,
                 faults>>

DescribeFails(d) ==               \* with databases: skipped as if it were not there
  /\ pc = "describing" /\ d \in want /\ multi /\ faults < MaxFaults
  /\ want' = want \ {d} /\ lost' = lost \cup {d} /\ faults' = faults + 1
  /\ UNCHANGED <<backend, pc, plan, todo, got, names, cache, answers, history, calls, statements, changes>>

BugPutIfListed(k) == schemas' = IF names # {} THEN [schemas EXCEPT ![k] = got] ELSE schemas
PutSchema(k) == schemas' = [schemas EXCEPT ![k] = got]

Put ==
  /\ pc = "describing" /\ want = {}
  /\ IF plan.cached THEN PutSchema(Request.schema) /\ cachedNames' = (IF multi THEN names ELSE cachedNames)
                    ELSE UNCHANGED <<schemas, cachedNames>>
  /\ asked' = [asked EXCEPT ![Request.schema] = @ + 1]
  /\ pc' = "routines"
  /\ UNCHANGED <<backend, plan, todo, want, got, names, listed, answers, history, lost, askedRts, statements,
                 changes, faults>>

(* ---- the routines, and the answer ---- *)
Answer(ok, rs) ==
  /\ answers' = answers \cup {[req |-> Request, ok |-> ok, schema |-> got, names |-> names, routines |-> rs]}
  /\ todo' = Tail(todo) /\ pc' = "next"

AnswerWithout ==                  \* no routines wanted
  /\ pc = "routines" /\ Request.routines = NoKey
  /\ Answer(TRUE, NoRoutines)
  /\ UNCHANGED <<backend, plan, want, got, names, cache, history, lost, calls, statements, changes, faults>>

AnswerCached ==
  /\ pc = "routines" /\ Request.routines \in Keys /\ plan.cached /\ listed[Request.routines] # Unread
  /\ Answer(TRUE, listed[Request.routines])
  /\ UNCHANGED <<backend, plan, want, got, names, cache, history, lost, calls, statements, changes, faults>>

PutRoutines(rs) ==
  /\ IF plan.cached THEN listed' = [listed EXCEPT ![Request.routines] = rs] ELSE UNCHANGED listed
  /\ askedRts' = [askedRts EXCEPT ![Request.routines] = @ + 1]

ListRoutines ==
  /\ pc = "routines" /\ Request.routines \in Keys /\ ~(plan.cached /\ listed[Request.routines] # Unread)
  /\ \/ /\ PutRoutines(routines[Filed[Request.routines]])
        /\ Answer(TRUE, routines[Filed[Request.routines]])
        /\ UNCHANGED <<lost, faults>>
     \/ /\ faults < MaxFaults      \* an error is no routines, and is remembered as that
        /\ PutRoutines(NoRoutines) /\ Answer(TRUE, NoRoutines)
        /\ lost' = lost \cup {Filed[Request.routines]} /\ faults' = faults + 1
  /\ UNCHANGED <<backend, plan, want, got, names, schemas, cachedNames, history, asked, statements, changes>>

(* the list of databases, or the one description of a backend without, cannot be had *)
IntrospectFails ==
  /\ faults < MaxFaults /\ (pc = "listing" \/ (pc = "describing" /\ ~multi /\ want # {}))
  /\ want' = {} /\ pc' = "next" /\ faults' = faults + 1
  /\ IF Request.soft                  \* go on without
     THEN /\ todo' = Tail(todo)
          /\ answers' = answers \cup {[req |-> Request, ok |-> FALSE, schema |-> Nowhere, names |-> {},
                                       routines |-> NoRoutines]}
     ELSE todo' = <<>> /\ UNCHANGED answers
  /\ UNCHANGED <<backend, plan, got, names, cache, history, lost, calls, statements, changes>>

End ==
  /\ pc = "next" /\ todo = <<>>
  /\ pc' = "idle" /\ plan' = Idle /\ answers' = {}
  /\ UNCHANGED <<backend, todo, want, got, names, cache, history, lost, calls, statements, changes, faults>>

(* ---- another connection ---- *)
ChangeTables(d, s) ==             \* CREATE, ALTER, DROP TABLE or DATABASE
  /\ changes < MaxChanges /\ s # tables[d] /\ (s = Absent => multi)
  /\ tables' = [tables EXCEPT ![d] = s] /\ seen' = [seen EXCEPT ![d] = @ \cup {s}]
  /\ changes' = changes + 1
  /\ UNCHANGED <<multi, routines, pc, plan, todo, want, got, names, cache, answers, seenRts, lost, calls,
                 statements, faults>>

ChangeRoutines(d, rs) ==          \* CREATE, ALTER, DROP VIEW or PROCEDURE
  /\ changes < MaxChanges /\ rs # routines[d]
  /\ routines' = [routines EXCEPT ![d] = rs] /\ seenRts' = [seenRts EXCEPT ![d] = @ \cup {rs}]
  /\ changes' = changes + 1
  /\ UNCHANGED <<multi, tables, pc, plan, todo, want, got, names, cache, answers, seen, lost, calls,
                 statements, faults>>

Stop == pc = "idle" /\ statements = MaxStatements /\ UNCHANGED vars

Next ==
  \/ \E s \in DOMAIN Plans : Begin(s)
  \/ UseCached \/ Introspect \/ NoIntrospection \/ Databases
  \/ \E d \in Dbs : DescribeDatabase(d) \/ DescribeFails(d)
  \/ Put \/ AnswerWithout \/ AnswerCached \/ ListRoutines \/ IntrospectFails \/ End
  \/ \E d \in Dbs : \/ \E s \in Schemas \cup {Absent} : ChangeTables(d, s)
                    \/ \E rs \in RoutineSets : ChangeRoutines(d, rs)
  \/ Stop

CacheSpec == Init /\ [][Next]_vars

(***************************************************************************)
(* Properties                                                              *)
(***************************************************************************)
Answers == [req : Requests, ok : BOOLEAN, schema : Described, names : SUBSET Dbs, routines : RoutineSets]

(* the type invariant *)
TypeOK ==
  /\ multi \in BOOLEAN /\ tables \in Described /\ routines \in [Dbs -> RoutineSets]
  /\ pc \in {"idle", "next", "listing", "describing", "routines"}
  /\ plan \in {Plans[s] : s \in DOMAIN Plans} \cup {Idle} /\ todo \in Seq(Requests) /\ (pc \in {"idle", "next"} \/ todo # <<>>)
  /\ want \in SUBSET Dbs /\ got \in Described /\ names \in SUBSET Dbs
  /\ schemas \in [Keys -> Described \cup {Unread}] /\ cachedNames \in SUBSET Dbs
  /\ listed \in [Keys -> RoutineSets \cup {Unread}]
  /\ answers \in SUBSET Answers
  /\ seen \in [Dbs -> SUBSET (Schemas \cup {Absent})] /\ seenRts \in [Dbs -> SUBSET RoutineSets]
  /\ lost \in SUBSET Dbs
  /\ asked \in [Keys -> Nat] /\ askedRts \in [Keys -> Nat]
  /\ statements \in Nat /\ changes \in Nat /\ faults \in Nat

(* every description told is of the database the request means, as it was *)
(* at some moment since the statement began; one is missing only if it was *)
(* missing or could not be described at such a moment                      *)
FreshTables(k, s) ==
  \A d \in Dbs :
    IF s[d] # Absent THEN s[d] \in seen[d] /\ (IF multi THEN d \in Spelled[k] ELSE d = Only)
    ELSE multi => d \notin Spelled[k] \/ Absent \in seen[d] \/ d \in lost

FreshRoutines(k, rs) == rs \in seenRts[Filed[k]] \/ (rs = NoRoutines /\ Filed[k] \in lost)

Fresh(a) ==
  a.ok => /\ a.req.schema \in Keys => FreshTables(a.req.schema, a.schema)
          /\ a.req.routines \in Keys => FreshRoutines(a.req.routines, a.routines)

SameAnswer(a, b) ==
  a.ok /\ b.ok =>
    /\ a.req.schema = b.req.schema => a.schema = b.schema
    /\ a.req.routines = b.req.routines => a.routines = b.routines

(* a query is told of one catalogue: the same thing every time it asks the *)
(* same thing, and never of a catalogue older than itself (withSchemaCache,*)
(* getSchema, putSchema, getRoutines, putRoutines)                         *)
OneFreshCatalogue ==
  /\ \A a \in answers : Fresh(a)
  /\ plan.cached => \A a, b \in answers : SameAnswer(a, b)

(* while one query runs the backend describes a database, and lists its    *)
(* routines, at most once per way of writing it                            *)
AskedOnce ==
  plan.cached => \A k \in Keys : asked[k] <= 1 /\ askedRts[k] <= 1
=============================================================================
