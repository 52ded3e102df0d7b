-------------------------- MODULE CatalogueProofs --------------------------
(***************************************************************************)
(* Proofs about SchemaCache and Catalogue: the cache keeps its types, a    *)
(* query is told of one catalogue and asks for each part of it once, the   *)
(* references the views keep lead to rows whichever views are joined, and  *)
(* views, procedures and functions say the same of a table or a routine.   *)
(*                                                                         *)
(* The invariant follows an answer on its way: what is being described is  *)
(* fresh as far as it goes (PartlyFresh), what the cache holds is fresh    *)
(* (CacheFresh), and every answer is what the cache holds (AnswersKept),   *)
(* so that two answers to one question are one value.  A reference between *)
(* two views is then one between the rows of one description, and a lemma  *)
(* for each pair of views finds the row it leads to.  What the reporters   *)
(* say of one object is shown of a description on its own: the ways they   *)
(* look it up (by its name in any case, by its id, by the rows that carry  *)
(* either) all find that object alone, and then each list they make of it  *)
(* is of the same parts.                                                   *)
(***************************************************************************)
EXTENDS Catalogue, FiniteSetTheorems, WellFoundedInduction, TLAPS

InScope(k, d) == IF multi THEN d \in Spelled[k] ELSE d = Only

(* s is a fresh description of the databases k means, but for those in w *)
PartlyFresh(k, s, w) ==
  \A d \in Dbs : IF s[d] # Absent THEN s[d] \in seen[d] /\ InScope(k, d)
                 ELSE multi => d \notin Spelled[k] \/ d \in w \/ Absent \in seen[d] \/ d \in lost

SeenNow == \A d \in Dbs : tables[d] \in seen[d] /\ routines[d] \in seenRts[d]

Missing == plan.cached => Request.schema \notin Keys \/ schemas[Request.schema] = Unread

Asking ==
  /\ pc = "listing" => multi /\ got = Nowhere /\ Missing
  /\ pc = "describing" => /\ Request.schema \in Keys /\ Missing
                          /\ \A d \in want : InScope(Request.schema, d)
                          /\ PartlyFresh(Request.schema, got, want)
  /\ pc = "routines" => IF Request.schema \in Keys
                        THEN /\ FreshTables(Request.schema, got)
                             /\ plan.cached => schemas[Request.schema] = got
                        ELSE got = Nowhere

CacheFresh ==
  plan.cached => \A k \in Keys :
    /\ IF schemas[k] = Unread THEN asked[k] = 0
                              ELSE asked[k] = 1 /\ FreshTables(k, schemas[k])
    /\ IF listed[k] = Unread THEN askedRts[k] = 0
                             ELSE askedRts[k] = 1 /\ FreshRoutines(k, listed[k])

Kept(a) ==
  a.ok => /\ a.schema = IF a.req.schema \in Keys THEN schemas[a.req.schema] ELSE Nowhere
          /\ a.routines = IF a.req.routines \in Keys THEN listed[a.req.routines] ELSE NoRoutines
          /\ a.req.schema \in Keys => schemas[a.req.schema] # Unread
          /\ a.req.routines \in Keys => listed[a.req.routines] # Unread

AnswersKept == \A a \in answers : Fresh(a) /\ (plan.cached => Kept(a))

CacheInv == TypeOK /\ SeenNow /\ Asking /\ CacheFresh /\ AnswersKept

(***************************************************************************)
(* Types                                                                   *)
(***************************************************************************)
(* every variable keeps its type (TypeOK)                                  *)
LEMMA CacheTypeInit == Init => TypeOK
  BY CacheAssumption DEF Init, TypeOK, Described, Nowhere

(* the request at hand is one, and so are those behind it                  *)
LEMMA RequestType ==
  ASSUME TypeOK, todo # <<>>
  PROVE  /\ Request \in Requests /\ Tail(todo) \in Seq(Requests)
         /\ Request.schema \in Keys \cup {NoKey} /\ Request.routines \in Keys \cup {NoKey}
<1>1. Request \in Requests /\ Tail(todo) \in Seq(Requests)
  BY DEF TypeOK, Request
<1> QED
  BY <1>1, CacheAssumption

(* counting once more leaves a table of counts one                         *)
LEMMA CountType ==
  ASSUME NEW S, NEW f \in [S -> Nat], NEW k
  PROVE  [f EXCEPT ![k] = @ + 1] \in [S -> Nat]
<1>1. CASE k \in S
  BY <1>1
<1>2. CASE k \notin S
  BY <1>2
<1> QED
  BY <1>1, <1>2

(* an answer is of the type of the answers                                 *)
LEMMA AnswerType ==
  ASSUME TypeOK, todo # <<>>, NEW rs \in RoutineSets, NEW ok \in BOOLEAN, Answer(ok, rs)
  PROVE  answers' \in SUBSET Answers /\ todo' \in Seq(Requests)
<1> DEFINE a == [req |-> Request, ok |-> ok, schema |-> got, names |-> names, routines |-> rs]
<1>1. got \in Described /\ names \in SUBSET Dbs /\ answers \in SUBSET Answers
  BY DEF TypeOK
<1>2. a \in Answers
  BY <1>1, RequestType DEF Answers
<1>3. answers' = answers \cup {a} /\ todo' = Tail(todo)
  BY DEF Answer
<1> HIDE DEF a
<1> QED
  BY <1>1, <1>2, <1>3, RequestType

(* and every step keeps the types                                          *)
LEMMA CacheTypeStep == TypeOK /\ [Next]_vars => TypeOK'
<1> SUFFICES ASSUME TypeOK, [Next]_vars PROVE TypeOK'
  OBVIOUS
<1> USE CacheAssumption
<1>1. ASSUME NEW s \in DOMAIN Plans, Begin(s) PROVE TypeOK'
  BY <1>1 DEF Begin, WithSchemaCache, TypeOK, Described, Nowhere, backend
<1>2. CASE UseCached
  BY <1>2 DEF UseCached, GetSchema, TypeOK, backend, cache, history, calls
<1>3. CASE Introspect
  BY <1>3 DEF Introspect, TypeOK, Described, Nowhere, backend, cache, history, calls
<1>4. CASE NoIntrospection
  BY <1>4 DEF NoIntrospection, TypeOK, Described, Nowhere, backend, cache, history, calls
<1>5. CASE Databases
  BY <1>5 DEF Databases, TypeOK, backend, cache, history, calls
<1>6. ASSUME NEW d \in Dbs, DescribeDatabase(d) PROVE TypeOK'
  BY <1>6 DEF DescribeDatabase, TypeOK, Described, backend, cache, history, calls
<1>7. ASSUME NEW d \in Dbs, DescribeFails(d) PROVE TypeOK'
  BY <1>7 DEF DescribeFails, TypeOK, backend, cache, history, calls
<1>8. CASE Put
  <2>1. Request.schema \in Keys \cup {NoKey}
    BY <1>8, RequestType DEF Put, TypeOK
  <2>2. schemas' \in [Keys -> Described \cup {Unread}]
    <3>1. got \in Described /\ schemas \in [Keys -> Described \cup {Unread}]
      BY DEF TypeOK
    <3> QED
      BY <1>8, <3>1 DEF Put, PutSchema
  <2>3. asked' \in [Keys -> Nat]
    <3>1. asked \in [Keys -> Nat]
      BY DEF TypeOK
    <3>2. asked' = [asked EXCEPT ![Request.schema] = @ + 1]
      BY <1>8 DEF Put
    <3> QED
      BY <3>1, <3>2, CountType
  <2> QED
    BY <1>8, <2>2, <2>3 DEF Put, TypeOK, backend, history
<1>9. CASE AnswerWithout
  <2>1. answers' \in SUBSET Answers /\ todo' \in Seq(Requests)
    BY <1>9, AnswerType DEF AnswerWithout, TypeOK
  <2> QED
    BY <1>9, <2>1 DEF AnswerWithout, Answer, TypeOK, backend, cache, history, calls
<1>10. CASE AnswerCached
  <2>1. listed[Request.routines] \in RoutineSets
    BY <1>10 DEF AnswerCached, TypeOK
  <2>2. answers' \in SUBSET Answers /\ todo' \in Seq(Requests)
    BY <1>10, AnswerType DEF AnswerCached, TypeOK
  <2> QED
    BY <1>10, <2>2 DEF AnswerCached, Answer, TypeOK, backend, cache, history, calls
<1>11. CASE ListRoutines
  <2>1. PICK rs \in RoutineSets : PutRoutines(rs) /\ Answer(TRUE, rs)
    BY <1>11 DEF ListRoutines, TypeOK
  <2>2. answers' \in SUBSET Answers /\ todo' \in Seq(Requests)
    BY <1>11, AnswerType DEF ListRoutines, TypeOK
  <2>3. listed' \in [Keys -> RoutineSets \cup {Unread}] /\ askedRts' \in [Keys -> Nat]
    <3>1. listed \in [Keys -> RoutineSets \cup {Unread}] /\ askedRts \in [Keys -> Nat]
      BY DEF TypeOK
    <3>2. listed' \in [Keys -> RoutineSets \cup {Unread}]
      BY <2>1, <3>1 DEF PutRoutines
    <3>3. askedRts' \in [Keys -> Nat]
      BY <3>1, CountType
    <3> QED
      BY <3>2, <3>3
  <2>4. lost' \in SUBSET Dbs /\ faults' \in Nat
    <3>1. Filed[Request.routines] \in Dbs
      BY <1>11 DEF ListRoutines
    <3>2. \/ lost' = lost /\ faults' = faults
          \/ lost' = lost \cup {Filed[Request.routines]} /\ faults' = faults + 1
      BY <1>11 DEF ListRoutines
    <3>3. lost \in SUBSET Dbs /\ faults \in Nat
      BY DEF TypeOK
    <3> QED
      BY <3>1, <3>2, <3>3
  <2>5. pc' = "next"
    BY <2>1 DEF Answer
  <2> QED
    BY <1>11, <2>2, <2>3, <2>4, <2>5 DEF ListRoutines, TypeOK, backend, history
<1>12. CASE IntrospectFails
  <2> DEFINE a == [req |-> Request, ok |-> FALSE, schema |-> Nowhere, names |-> {},
         routines |-> NoRoutines]
  <2>1. todo # <<>>
    BY <1>12 DEF IntrospectFails, TypeOK
  <2>2. a \in Answers
    BY <2>1, RequestType DEF Answers, Described, Nowhere
  <2>3. answers \in SUBSET Answers
    BY DEF TypeOK
  <2>5. \/ answers' = answers /\ todo' = <<>>
        \/ answers' = answers \cup {a} /\ todo' = Tail(todo)
    BY <1>12 DEF IntrospectFails
  <2> HIDE DEF a
  <2>4. answers' \in SUBSET Answers /\ todo' \in Seq(Requests)
    <3>1. CASE answers' = answers /\ todo' = <<>>
      BY <2>3, <3>1
    <3>2. CASE answers' = answers \cup {a} /\ todo' = Tail(todo)
      BY <2>1, <2>2, <2>3, <3>2, RequestType
    <3> QED
      BY <2>5, <3>1, <3>2
  <2> QED
    BY <1>12, <2>4 DEF IntrospectFails, TypeOK, backend, cache, history, calls
<1>13. CASE End
  BY <1>13 DEF End, TypeOK, backend, cache, history, calls
<1>14. ASSUME NEW d \in Dbs, NEW s \in Schemas \cup {Absent}, ChangeTables(d, s) PROVE TypeOK'
  BY <1>14 DEF ChangeTables, TypeOK, Described, cache, calls
<1>15. ASSUME NEW d \in Dbs, NEW rs \in RoutineSets, ChangeRoutines(d, rs) PROVE TypeOK'
  BY <1>15 DEF ChangeRoutines, TypeOK, cache, calls
<1>16. CASE UNCHANGED vars
  BY <1>16 DEF vars, TypeOK, backend, cache, history, calls
<1> QED
  BY <1>1, <1>2, <1>3, <1>4, <1>5, <1>6, <1>7, <1>8, <1>9, <1>10, <1>11, <1>12, <1>13, <1>14, <1>15,
     <1>16 DEF Next, Stop

(* no variable of the schema cache ever leaves its type                    *)
THEOREM CacheTypes == CacheSpec => []TypeOK
<1>1. Init => TypeOK
  BY CacheTypeInit
<1>2. TypeOK /\ [Next]_vars => TypeOK'
  BY CacheTypeStep
<1> QED
  BY <1>1, <1>2, PTL DEF CacheSpec

(***************************************************************************)
(* One catalogue                                                           *)
(***************************************************************************)
(* the invariant holds in the beginning                                    *)
LEMMA CacheInvInit == Init => CacheInv
<1> SUFFICES ASSUME Init PROVE CacheInv
  OBVIOUS
<1>1. SeenNow /\ Asking /\ CacheFresh /\ AnswersKept
  BY DEF Init, SeenNow, Asking, CacheFresh, AnswersKept
<1> QED
  BY <1>1, CacheTypeInit DEF CacheInv

(* a new statement starts with nothing                                     *)
LEMMA BeginStep ==
  ASSUME CacheInv, NEW s \in DOMAIN Plans, Begin(s)
  PROVE  SeenNow' /\ Asking' /\ CacheFresh' /\ AnswersKept'
BY DEF SeenNow, Asking, CacheFresh, AnswersKept, Begin, WithSchemaCache, backend

(* a cached catalogue is told as it was kept                               *)
LEMMA UseCachedStep ==
  ASSUME CacheInv, UseCached
  PROVE  SeenNow' /\ Asking' /\ CacheFresh' /\ AnswersKept'
<1>1. SeenNow'
  BY DEF CacheInv, SeenNow, UseCached, backend, history
<1>2. Asking'
  BY DEF CacheInv, Asking, CacheFresh, FreshTables, Request, UseCached, GetSchema, backend, cache,
         history
<1>3. CacheFresh'
  BY DEF CacheInv, CacheFresh, FreshTables, FreshRoutines, UseCached, backend, cache, history, calls
<1>4. AnswersKept'
  BY DEF CacheInv, AnswersKept, Kept, Fresh, FreshTables, FreshRoutines, UseCached, backend,
         cache, history
<1> QED
  BY <1>1, <1>2, <1>3, <1>4

(* asking the backend tells nothing yet                                    *)
LEMMA IntrospectStep ==
  ASSUME CacheInv, Introspect
  PROVE  SeenNow' /\ Asking' /\ CacheFresh' /\ AnswersKept'
<1>1. SeenNow'
  BY DEF CacheInv, SeenNow, Introspect, backend, history
<1>2. Asking'
  BY DEF Asking, Missing, PartlyFresh, InScope, Request, Nowhere, Introspect, GetSchema, backend,
         cache
<1>3. CacheFresh'
  BY DEF CacheInv, CacheFresh, FreshTables, FreshRoutines, Introspect, backend, cache, history,
         calls
<1>4. AnswersKept'
  BY DEF CacheInv, AnswersKept, Kept, Fresh, FreshTables, FreshRoutines, Introspect, backend,
         cache, history
<1> QED
  BY <1>1, <1>2, <1>3, <1>4

(* nor does a request that wants no tables                                 *)
LEMMA NoIntrospectionStep ==
  ASSUME CacheInv, NoIntrospection
  PROVE  SeenNow' /\ Asking' /\ CacheFresh' /\ AnswersKept'
<1>1. SeenNow'
  BY DEF CacheInv, SeenNow, NoIntrospection, backend, history
<1>2. Asking'
  BY CacheAssumption DEF Asking, Missing, Request, NoIntrospection, backend
<1>3. CacheFresh'
  BY DEF CacheInv, CacheFresh, FreshTables, FreshRoutines, NoIntrospection, backend, cache,
         history, calls
<1>4. AnswersKept'
  BY DEF CacheInv, AnswersKept, Kept, Fresh, FreshTables, FreshRoutines, NoIntrospection, backend,
         cache, history
<1> QED
  BY <1>1, <1>2, <1>3, <1>4

(* a listing tells of databases there are                                  *)
LEMMA DatabasesStep ==
  ASSUME CacheInv, Databases
  PROVE  SeenNow' /\ Asking' /\ CacheFresh' /\ AnswersKept'
<1>1. SeenNow'
  BY DEF CacheInv, SeenNow, Databases, backend, history
<1>2. Asking'
  BY DEF CacheInv, SeenNow, Asking, Missing, PartlyFresh, InScope, Request, Nowhere, Databases,
         backend, cache, history
<1>3. CacheFresh'
  BY DEF CacheInv, CacheFresh, FreshTables, FreshRoutines, Databases, backend, cache, history, calls
<1>4. AnswersKept'
  BY DEF CacheInv, AnswersKept, Kept, Fresh, FreshTables, FreshRoutines, Databases, backend,
         cache, history
<1> QED
  BY <1>1, <1>2, <1>3, <1>4

(* a description is of this moment                                         *)
LEMMA DescribeDatabaseStep ==
  ASSUME CacheInv, NEW d \in Dbs, DescribeDatabase(d)
  PROVE  SeenNow' /\ Asking' /\ CacheFresh' /\ AnswersKept'
<1>1. SeenNow'
  BY DEF CacheInv, SeenNow, DescribeDatabase, backend, history
<1>2. Asking'
  BY DEF CacheInv, TypeOK, Described, SeenNow, Asking, Missing, PartlyFresh, InScope, Request,
         DescribeDatabase, backend, cache, history
<1>3. CacheFresh'
  BY DEF CacheInv, CacheFresh, FreshTables, FreshRoutines, DescribeDatabase, backend, cache,
         history, calls
<1>4. AnswersKept'
  BY DEF CacheInv, AnswersKept, Kept, Fresh, FreshTables, FreshRoutines, DescribeDatabase,
         backend, cache, history
<1> QED
  BY <1>1, <1>2, <1>3, <1>4

(* a failure is remembered as one                                          *)
LEMMA DescribeFailsStep ==
  ASSUME CacheInv, NEW d \in Dbs, DescribeFails(d)
  PROVE  SeenNow' /\ Asking' /\ CacheFresh' /\ AnswersKept'
<1>1. SeenNow'
  BY DEF CacheInv, SeenNow, DescribeFails, backend, history
<1>2. Asking'
  BY DEF CacheInv, Asking, Missing, PartlyFresh, InScope, Request, DescribeFails, backend, cache,
         history
<1>3. CacheFresh'
  BY DEF CacheInv, CacheFresh, FreshTables, FreshRoutines, DescribeFails, backend, cache, history,
         calls
<1>4. AnswersKept'
  BY DEF CacheInv, AnswersKept, Kept, Fresh, FreshTables, FreshRoutines, DescribeFails, backend,
         cache, history
<1> QED
  BY <1>1, <1>2, <1>3, <1>4

(* what is kept is what was described, and was not kept before             *)
LEMMA PutStep ==
  ASSUME CacheInv, Put
  PROVE  SeenNow' /\ Asking' /\ CacheFresh' /\ AnswersKept'
<1>1. SeenNow'
  BY DEF CacheInv, SeenNow, Put, backend, history
<1>2. Asking'
  BY DEF CacheInv, TypeOK, Asking, FreshTables, PartlyFresh, InScope, Request, Put, PutSchema,
         backend, history
<1>3. CacheFresh'
  <2> SUFFICES ASSUME plan.cached
               PROVE  CacheFresh'
    BY DEF CacheFresh, Put
  <2> DEFINE r == Request.schema
  <2>1. r \in Keys /\ schemas[r] = Unread /\ asked[r] = 0 /\ FreshTables(r, got)
    BY DEF CacheInv, Asking, Missing, CacheFresh, PartlyFresh, FreshTables, InScope, Put
  <2>2. got # Unread /\ schemas \in [Keys -> Described \cup {Unread}] /\ asked \in [Keys -> Nat]
    BY CacheAssumption DEF CacheInv, TypeOK, Described
  <2>3. schemas' = [schemas EXCEPT ![r] = got] /\ asked' = [asked EXCEPT ![r] = @ + 1]
    BY DEF Put, PutSchema
  <2> HIDE DEF r
  <2>4. ASSUME NEW k \in Keys
        PROVE  IF schemas'[k] = Unread THEN asked'[k] = 0
               ELSE asked'[k] = 1 /\ FreshTables(k, schemas'[k])
    <3>1. CASE k = r
      BY <2>1, <2>2, <2>3, <3>1
    <3>2. CASE k # r
      BY <2>3, <3>2 DEF CacheInv, CacheFresh
    <3> QED
      BY <3>1, <3>2
  <2> QED
    BY <2>4 DEF CacheInv, CacheFresh, FreshTables, FreshRoutines, Put, backend, history
<1>4. AnswersKept'
  BY DEF CacheInv, TypeOK, Asking, AnswersKept, Kept, Fresh, FreshTables, FreshRoutines, Missing,
         Put, PutSchema, backend, history
<1> QED
  BY <1>1, <1>2, <1>3, <1>4

(* an answer without routines is as fresh as its tables                    *)
LEMMA AnswerWithoutStep ==
  ASSUME CacheInv, AnswerWithout
  PROVE  SeenNow' /\ Asking' /\ CacheFresh' /\ AnswersKept'
<1>1. SeenNow'
  BY DEF CacheInv, SeenNow, AnswerWithout, backend, history
<1>2. Asking'
  BY DEF Asking, AnswerWithout, Answer
<1>3. CacheFresh'
  BY DEF CacheInv, CacheFresh, FreshTables, FreshRoutines, AnswerWithout, backend, cache, history,
         calls
<1>4. AnswersKept'
  BY CacheAssumption DEF CacheInv, TypeOK, Described, Asking, AnswersKept, Kept, Fresh,
         FreshTables, FreshRoutines, AnswerWithout, Answer, backend, cache, history
<1> QED
  BY <1>1, <1>2, <1>3, <1>4

(* routines are told as they were kept                                     *)
LEMMA AnswerCachedStep ==
  ASSUME CacheInv, AnswerCached
  PROVE  SeenNow' /\ Asking' /\ CacheFresh' /\ AnswersKept'
<1>1. SeenNow'
  BY DEF CacheInv, SeenNow, AnswerCached, backend, history
<1>2. Asking'
  BY DEF Asking, AnswerCached, Answer
<1>3. CacheFresh'
  BY DEF CacheInv, CacheFresh, FreshTables, FreshRoutines, AnswerCached, backend, cache, history,
         calls
<1>4. AnswersKept'
  BY CacheAssumption DEF CacheInv, TypeOK, Described, Asking, CacheFresh, AnswersKept, Kept,
         Fresh, FreshTables, FreshRoutines, AnswerCached, Answer, backend, cache, history
<1> QED
  BY <1>1, <1>2, <1>3, <1>4

(* routines listed are of this moment, and kept only once                  *)
LEMMA ListRoutinesStep ==
  ASSUME CacheInv, ListRoutines
  PROVE  SeenNow' /\ Asking' /\ CacheFresh' /\ AnswersKept'
<1>1. SeenNow'
  BY DEF CacheInv, SeenNow, ListRoutines, backend, history
<1>2. Asking'
  BY DEF Asking, ListRoutines, Answer
<1>3. CacheFresh'
  <2> SUFFICES ASSUME plan.cached
               PROVE  CacheFresh'
    BY DEF CacheFresh, ListRoutines
  <2> PICK r \in Keys : r = Request.routines
    BY DEF ListRoutines
  <2>1. listed[r] = Unread /\ askedRts[r] = 0
    BY DEF CacheInv, CacheFresh, ListRoutines
  <2>2. listed \in [Keys -> RoutineSets \cup {Unread}] /\ askedRts \in [Keys -> Nat]
    BY DEF CacheInv, TypeOK
  <2>3. PICK rs \in RoutineSets : /\ listed' = [listed EXCEPT ![r] = rs]
                                  /\ askedRts' = [askedRts EXCEPT ![r] = @ + 1]
                                  /\ FreshRoutines(r, rs)'
    BY CacheAssumption DEF CacheInv, TypeOK, SeenNow, ListRoutines, PutRoutines, FreshRoutines,
           history
  <2>4. lost \subseteq lost'
    BY DEF ListRoutines
  <2>5. ASSUME NEW k \in Keys
        PROVE  IF listed'[k] = Unread THEN askedRts'[k] = 0
               ELSE askedRts'[k] = 1 /\ FreshRoutines(k, listed[k])'
    <3>1. CASE k = r
      BY <2>1, <2>2, <2>3, <3>1, CacheAssumption
    <3>2. CASE k # r
      BY <2>3, <2>4, <3>2 DEF CacheInv, CacheFresh, FreshRoutines, ListRoutines, history
    <3> QED
      BY <3>1, <3>2
  <2> QED
    BY <2>5 DEF CacheInv, CacheFresh, FreshTables, ListRoutines, backend, history
<1>4. AnswersKept'
  BY SMTT(30), CacheAssumption DEF CacheInv, TypeOK, Described, SeenNow, Asking, CacheFresh, AnswersKept,
         Kept, Fresh, FreshTables, FreshRoutines, ListRoutines, PutRoutines, Answer, backend,
                history
<1> QED
  BY <1>1, <1>2, <1>3, <1>4

(* an answer that fails promises nothing                                   *)
LEMMA IntrospectFailsStep ==
  ASSUME CacheInv, IntrospectFails
  PROVE  SeenNow' /\ Asking' /\ CacheFresh' /\ AnswersKept'
<1>1. SeenNow'
  BY DEF CacheInv, SeenNow, IntrospectFails, backend, history
<1>2. Asking'
  BY DEF Asking, IntrospectFails
<1>3. CacheFresh'
  BY DEF CacheInv, CacheFresh, FreshTables, FreshRoutines, IntrospectFails, backend, cache,
         history, calls
<1>4. AnswersKept'
  BY DEF CacheInv, AnswersKept, Kept, Fresh, FreshTables, FreshRoutines, IntrospectFails, backend,
         cache, history
<1> QED
  BY <1>1, <1>2, <1>3, <1>4

(* a statement that ends has told everything                               *)
LEMMA EndStep ==
  ASSUME CacheInv, End
  PROVE  SeenNow' /\ Asking' /\ CacheFresh' /\ AnswersKept'
<1>1. SeenNow'
  BY DEF CacheInv, SeenNow, End, backend, history
<1>2. Asking'
  BY DEF Asking, End
<1>3. CacheFresh'
  BY DEF CacheFresh, End, Idle
<1>4. AnswersKept'
  BY DEF AnswersKept, End
<1> QED
  BY <1>1, <1>2, <1>3, <1>4

(* a change of tables adds to what has been seen                           *)
LEMMA ChangeTablesStep ==
  ASSUME CacheInv, NEW d \in Dbs, NEW s \in Schemas \cup {Absent}, ChangeTables(d, s)
  PROVE  SeenNow' /\ Asking' /\ CacheFresh' /\ AnswersKept'
<1>1. SeenNow'
  BY DEF CacheInv, TypeOK, SeenNow, ChangeTables
<1>2. Asking'
  BY DEF CacheInv, Asking, Missing, FreshTables, PartlyFresh, InScope, Request, ChangeTables, cache
<1>3. CacheFresh'
  BY DEF CacheInv, CacheFresh, FreshTables, FreshRoutines, ChangeTables, cache, calls
<1>4. AnswersKept'
  BY DEF CacheInv, AnswersKept, Kept, Fresh, FreshTables, FreshRoutines, ChangeTables, cache
<1> QED
  BY <1>1, <1>2, <1>3, <1>4

(* and so does one of routines                                             *)
LEMMA ChangeRoutinesStep ==
  ASSUME CacheInv, NEW d \in Dbs, NEW rs \in RoutineSets, ChangeRoutines(d, rs)
  PROVE  SeenNow' /\ Asking' /\ CacheFresh' /\ AnswersKept'
<1>1. SeenNow'
  BY DEF CacheInv, TypeOK, SeenNow, ChangeRoutines
<1>2. Asking'
  BY DEF CacheInv, Asking, Missing, FreshTables, PartlyFresh, InScope, Request, ChangeRoutines,
         cache
<1>3. CacheFresh'
  BY DEF CacheInv, CacheFresh, FreshTables, FreshRoutines, ChangeRoutines, cache, calls
<1>4. AnswersKept'
  BY DEF CacheInv, AnswersKept, Kept, Fresh, FreshTables, FreshRoutines, ChangeRoutines, cache
<1> QED
  BY <1>1, <1>2, <1>3, <1>4

(* every step keeps the invariant                                          *)
LEMMA CacheInvStep == CacheInv /\ [Next]_vars => CacheInv'
<1> SUFFICES ASSUME CacheInv, [Next]_vars PROVE CacheInv'
  OBVIOUS
<1>1. TypeOK'
  BY CacheTypeStep DEF CacheInv
<1>2. CASE UNCHANGED vars
  BY <1>1, <1>2 DEF vars, backend, cache, history, calls, CacheInv, SeenNow, Asking, CacheFresh,
         AnswersKept,
     Missing, PartlyFresh, InScope, Kept, Fresh, FreshTables, FreshRoutines, Request
<1>3. CASE Next /\ ~UNCHANGED vars
  BY <1>1, <1>3, BeginStep, UseCachedStep, IntrospectStep, NoIntrospectionStep, DatabasesStep,
     DescribeDatabaseStep, DescribeFailsStep, PutStep, AnswerWithoutStep, AnswerCachedStep,
     ListRoutinesStep, IntrospectFailsStep, EndStep, ChangeTablesStep, ChangeRoutinesStep
     DEF Next, Stop, CacheInv
<1> QED
  BY <1>2, <1>3

(* fresh answers that are what the cache holds are of one fresh catalogue  *)
LEMMA CacheInvFresh == CacheInv => OneFreshCatalogue
<1> SUFFICES ASSUME CacheInv PROVE OneFreshCatalogue
  OBVIOUS
<1>1. \A a \in answers : Fresh(a)
  BY DEF CacheInv, AnswersKept
<1>2. ASSUME plan.cached, NEW a \in answers, NEW b \in answers, a.ok, b.ok
      PROVE  /\ a.req.schema = b.req.schema => a.schema = b.schema
             /\ a.req.routines = b.req.routines => a.routines = b.routines
  <2>1. Kept(a) /\ Kept(b)
    BY <1>2 DEF CacheInv, AnswersKept
  <2> QED
    BY <1>2, <2>1 DEF Kept
<1> QED
  BY <1>1, <1>2 DEF OneFreshCatalogue, SameAnswer

(* a query is told of one catalogue, and never of one older than itself    *)
(* (OneFreshCatalogue)                                                     *)
THEOREM CacheOneFreshCatalogue == CacheSpec => []OneFreshCatalogue
  BY CacheInvInit, CacheInvStep, CacheInvFresh, PTL DEF CacheSpec

(* while a query runs the backend describes a database, and lists its      *)
(* routines, at most once per way of writing it (AskedOnce)                *)
THEOREM CacheAskedOnce == CacheSpec => []AskedOnce
<1>1. Init => CacheInv
  BY CacheInvInit
<1>2. CacheInv /\ [Next]_vars => CacheInv'
  BY CacheInvStep
<1>3. CacheInv => AskedOnce
  BY DEF CacheInv, CacheFresh, AskedOnce
<1> QED
  BY <1>1, <1>2, <1>3, PTL DEF CacheSpec

(***************************************************************************)
(* Numbers and sequences                                                   *)
(***************************************************************************)
LEMMA LeastNumber ==
  ASSUME NEW T, T \subseteq Nat, T # {}
  PROVE  \E x \in T : \A y \in T : x <= y
<1> DEFINE R == OpToRel(<, Nat)
<1>1. PICK x \in T : \A y \in T : ~(<<y, x>> \in R)
  BY NatLessThanWellFounded, WFMin
<1>2. \A y \in T : ~(y < x)
  BY <1>1 DEF OpToRel
<1> QED
  BY <1>2

(* the greatest of some places of a sequence                               *)
LEMMA GreatestPlace ==
  ASSUME NEW n \in Nat, NEW T, T \subseteq 1..n, T # {}
  PROVE  \E x \in T : \A y \in T : y <= x
<1> DEFINE U == {k \in Nat : n - k \in T}
<1>1. PICK y \in T : TRUE
  OBVIOUS
<1>2. y \in Nat /\ n - y \in Nat /\ n - (n - y) = y
  OBVIOUS
<1>3. U # {}
  BY <1>1, <1>2
<1>4. PICK u \in U : \A v \in U : u <= v
  BY <1>3, LeastNumber
<1>5. ASSUME NEW z \in T PROVE z <= n - u
  <2>1. z \in Nat /\ n - z \in Nat /\ n - (n - z) = z
    OBVIOUS
  <2>2. n - z \in U
    BY <2>1
  <2>3. u <= n - z
    BY <1>4, <2>2
  <2> QED
    BY <1>4, <2>1, <2>3
<1> QED
  BY <1>4, <1>5

(* FlattenSeq's concatenations, the i-th of the first i sequences          *)
Flat(ss, n, g) == g = [i \in 1..n |-> IF i = 1 THEN ss[i] ELSE g[i - 1] \o ss[i]]

LEMMA FlatExists ==
  ASSUME NEW ss, NEW n \in Nat
  PROVE  \E g : Flat(ss, n, g)
<1> DEFINE T == {m \in Nat : ~\E g : Flat(ss, m, g)}
<1>1. ASSUME T # {} PROVE FALSE
  <2>1. PICK m \in T : \A y \in T : m <= y
    BY <1>1, LeastNumber
  <2>2. CASE m = 0
    <3> DEFINE g == [i \in 1..0 |-> ss]
    <3>1. g = [i \in 1..0 |-> IF i = 1 THEN ss[i] ELSE g[i - 1] \o ss[i]]
      OBVIOUS
    <3> QED
      BY <2>1, <2>2, <3>1 DEF Flat
  <2>3. CASE m # 0
    <3>1. m - 1 \in Nat /\ m - 1 \notin T
      BY <2>1, <2>3
    <3>2. PICK g : Flat(ss, m - 1, g)
      BY <3>1
    <3> DEFINE last == IF m = 1 THEN ss[m] ELSE g[m - 1] \o ss[m]
               f    == [i \in 1..m |-> IF i = m THEN last ELSE g[i]]
               e    == [i \in 1..m |-> IF i = 1 THEN ss[i] ELSE f[i - 1] \o ss[i]]
    <3>3. ASSUME NEW i \in 1..m PROVE f[i] = e[i]
      <4>1. CASE i = m
        <5>1. m # 1 => m - 1 \in 1..m /\ m - 1 # m
          BY <2>3
        <5>2. m # 1 => f[m - 1] = g[m - 1]
          BY <5>1
        <5> QED
          BY <4>1, <5>2
      <4>2. CASE i # m
        <5>1. i \in 1..(m - 1) /\ (i # 1 => i - 1 \in 1..m /\ i - 1 # m)
          BY <4>2
        <5>2. f[i] = g[i] /\ (i # 1 => f[i - 1] = g[i - 1])
          BY <4>2, <5>1
        <5>3. g[i] = IF i = 1 THEN ss[i] ELSE g[i - 1] \o ss[i]
          BY <3>2, <5>1 DEF Flat
        <5> QED
          BY <5>2, <5>3
      <4> QED
        BY <4>1, <4>2
    <3>4. f = [i \in 1..m |-> f[i]] /\ e = [i \in 1..m |-> e[i]]
      OBVIOUS
    <3>5. f = e
      <4> HIDE DEF e, f
      <4> QED
        BY <3>3, <3>4
    <3>6. Flat(ss, m, f)
      BY <3>5 DEF Flat
    <3> QED
      BY <2>1, <3>6
  <2> QED
    BY <2>2, <2>3
<1>2. n \notin T
  BY <1>1
<1> QED
  BY <1>2

(* FlattenSeq's result is the last of its concatenations                   *)
LEMMA FlattenIs ==
  ASSUME NEW S, NEW ss \in Seq(Seq(S)), Len(ss) # 0
  PROVE  \E e : /\ FlattenSeq(ss) = e[Len(ss)]
                /\ \A i \in 1..Len(ss) : /\ e[i] = IF i = 1 THEN ss[i] ELSE e[i - 1] \o ss[i]
                                         /\ e[i] \in Seq(S)
<1> DEFINE n    == Len(ss)
           F(g) == g = [i \in 1..n |-> IF i = 1 THEN ss[i] ELSE g[i - 1] \o ss[i]]
           e    == CHOOSE g : F(g)
<1>1. n \in Nat /\ n # 0 /\ \A i \in 1..n : ss[i] \in Seq(S)
  OBVIOUS
<1>2. FlattenSeq(ss) = e[n]
  BY DEF FlattenSeq
<1> HIDE DEF n
<1>3. \E g : F(g)
  BY <1>1, FlatExists DEF Flat
<1>4. F(e)
  <2> HIDE DEF F
  <2> QED
    BY <1>3
<1>5. \A i \in 1..n : e[i] = IF i = 1 THEN ss[i] ELSE e[i - 1] \o ss[i]
  <2> HIDE DEF e
  <2> QED
    BY <1>4
<1> HIDE DEF e, F
<1> DEFINE T == {i \in Nat : i \in 1..n /\ e[i] \notin Seq(S)}
<1>6. ASSUME T # {} PROVE FALSE
  <2>1. PICK m \in T : \A y \in T : m <= y
    BY <1>6, LeastNumber
  <2>2. CASE m = 1
    BY <1>1, <1>5, <2>1, <2>2
  <2>3. CASE m # 1
    <3>1. m - 1 \in Nat /\ m - 1 \in 1..n /\ m - 1 \notin T
      BY <1>1, <2>1, <2>3
    <3>2. e[m - 1] \in Seq(S) /\ ss[m] \in Seq(S) /\ e[m] = e[m - 1] \o ss[m]
      BY <1>1, <1>5, <2>1, <2>3, <3>1
    <3>3. e[m] \in Seq(S)
      BY <3>2
    <3> QED
      BY <2>1, <3>3
  <2> QED
    BY <2>2, <2>3
<1>7. ASSUME NEW i \in 1..n PROVE e[i] \in Seq(S)
  <2>1. i \in Nat
    BY <1>1
  <2>2. i \notin T
    <3> HIDE DEF T
    <3> QED
      BY <1>6
  <2> QED
    BY <2>1, <2>2
<1> QED
  BY <1>2, <1>5, <1>7 DEF n

(* what is in all of the sequences is in their concatenation               *)
LEMMA FlattenType ==
  ASSUME NEW S, NEW ss \in Seq(Seq(S))
  PROVE  FlattenSeq(ss) \in Seq(S)
<1>1. CASE Len(ss) = 0
  <2>1. FlattenSeq(ss) = ss
    BY <1>1 DEF FlattenSeq
  <2>2. ss = <<>>
    BY <1>1
  <2>3. ss \in Seq(S)
    BY <2>2
  <2> QED
    BY <2>1, <2>3
<1>2. CASE Len(ss) # 0
  <2>1. PICK e : /\ FlattenSeq(ss) = e[Len(ss)]
                 /\ \A i \in 1..Len(ss) : e[i] \in Seq(S)
    BY <1>2, FlattenIs
  <2>2. Len(ss) \in 1..Len(ss)
    BY <1>2
  <2> QED
    BY <2>1, <2>2
<1> QED
  BY <1>1, <1>2

LEMMA ConcatSet ==
  ASSUME NEW S, NEW a \in Seq(S), NEW b \in Seq(S)
  PROVE  ToSet(a) \cup ToSet(b) \subseteq ToSet(a \o b)
<1>1. /\ Len(a) \in Nat /\ Len(b) \in Nat /\ DOMAIN a = 1..Len(a) /\ DOMAIN b = 1..Len(b)
      /\ DOMAIN (a \o b) = 1..(Len(a) + Len(b))
  OBVIOUS
<1>2. /\ \A i \in 1..Len(a) : i \in 1..(Len(a) + Len(b)) /\ (a \o b)[i] = a[i]
      /\ \A i \in 1..Len(b) : Len(a) + i \in 1..(Len(a) + Len(b)) /\ (a \o b)[Len(a) + i] = b[i]
  BY <1>1
<1> DEFINE c == a \o b
<1> HIDE DEF c
<1>3. \A x \in ToSet(a) \cup ToSet(b) : x \in ToSet(c)
  BY <1>1, <1>2 DEF ToSet, c
<1> QED
  BY <1>3 DEF c

(* and what is in one of them is in it                                     *)
LEMMA FlattenHas ==
  ASSUME NEW S, NEW ss \in Seq(Seq(S)), NEW i \in 1..Len(ss), NEW x \in ToSet(ss[i])
  PROVE  x \in ToSet(FlattenSeq(ss))
<1> DEFINE n == Len(ss)
<1>1. n \in Nat /\ n # 0 /\ \A j \in 1..n : ss[j] \in Seq(S)
  OBVIOUS
<1>2. PICK e : /\ FlattenSeq(ss) = e[n]
               /\ \A j \in 1..n : /\ e[j] = IF j = 1 THEN ss[j] ELSE e[j - 1] \o ss[j]
                                  /\ e[j] \in Seq(S)
  BY <1>1, FlattenIs
<1> HIDE DEF n
<1>3. i \in 1..n
  BY DEF n
<1> DEFINE T == {j \in Nat : j \in i..n /\ x \notin ToSet(e[j])}
<1>4. ASSUME T # {} PROVE FALSE
  <2>1. PICK m \in T : \A y \in T : m <= y
    BY <1>4, LeastNumber
  <2>2. m \in 1..n /\ i <= m
    BY <1>1, <1>3, <2>1
  <2>3. CASE m = 1
    BY <1>2, <2>1, <2>2, <2>3
  <2>4. CASE m # 1
    <3>1. m - 1 \in 1..n /\ m - 1 \in Nat
      BY <1>1, <2>2, <2>4
    <3>2. e[m] = e[m - 1] \o ss[m] /\ e[m - 1] \in Seq(S) /\ ss[m] \in Seq(S)
      BY <1>1, <1>2, <2>2, <2>4, <3>1
    <3>3. ToSet(e[m - 1]) \cup ToSet(ss[m]) \subseteq ToSet(e[m])
      BY <3>2, ConcatSet
    <3>4. CASE m = i
      BY <2>1, <3>3, <3>4
    <3>5. CASE m # i
      <4>1. m - 1 \in i..n /\ m - 1 \notin T
        BY <2>1, <2>2, <3>1, <3>5
      <4>2. x \in ToSet(e[m - 1])
        BY <3>1, <4>1
      <4> QED
        BY <2>1, <3>3, <4>2
    <3> QED
      BY <3>4, <3>5
  <2> QED
    BY <2>3, <2>4
<1>5. n \in i..n
  BY <1>1, <1>3
<1> QED
  BY <1>1, <1>2, <1>4, <1>5

(***************************************************************************)
(* The description an answer is                                            *)
(***************************************************************************)
Typed(d) == d.tables \in Seq(TableDefs) /\ d.rts \in Seq(RoutineDefs)

(* naming the database of tables leaves them tables                        *)
LEMMA TaggedType ==
  ASSUME NEW db \in STRING, NEW ts \in Seq(TableDefs)
  PROVE  Tagged(db, ts) \in Seq(TableDefs)
<1>1. \A t \in TableDefs : [t EXCEPT !.catalog = db] \in TableDefs
  BY DEF TableDefs
<1>2. DOMAIN ts = 1..Len(ts) /\ Len(ts) \in Nat /\ \A i \in 1..Len(ts) : ts[i] \in TableDefs
  OBVIOUS
<1> DEFINE n    == Len(ts)
           f(i) == [ts[i] EXCEPT !.catalog = db]
<1>3. \A i \in 1..n : f(i) \in TableDefs
  BY <1>1, <1>2
<1>4. Tagged(db, ts) = [i \in 1..n |-> f(i)]
  BY <1>2 DEF Tagged
<1> HIDE DEF n, f
<1>5. [i \in 1..n |-> f(i)] \in [1..n -> TableDefs] /\ n \in Nat
  BY <1>2, <1>3 DEF n
<1>6. [i \in 1..n |-> f(i)] \in Seq(TableDefs)
  BY <1>5
<1> QED
  BY <1>4, <1>6

(* what an answer describes is of the types of what is declared            *)
LEMMA DescriptionType ==
  ASSUME NEW a \in Answers
  PROVE  Typed(Description(a))
<1>1. a.schema \in Described /\ a.routines \in RoutineSets
  BY DEF Answers
<1>2. \A d \in Dbs : a.schema[d] # Absent => Holds[a.schema[d]].tables \in Seq(TableDefs)
  BY <1>1, CatalogueAssumption DEF Described
<1>3. <<>> \in Seq(TableDefs)
  OBVIOUS
<1>4. CASE multi
  <2> DEFINE s  == a.schema
             n  == Len(Order)
             ts == [i \in DOMAIN Order |->
                      IF s[Order[i]] = Absent THEN <<>> ELSE Tagged(Order[i], Holds[s[Order[i]]].tables)]
             T  == Seq(TableDefs)
  <2>1. TablesTold(s) = FlattenSeq(ts)
    BY <1>4 DEF TablesTold
  <2>2. n \in Nat /\ DOMAIN Order = 1..n /\ \A i \in 1..n : Order[i] \in Dbs /\ Order[i] \in STRING
    <3>1. Order \in Seq(Dbs)
      BY CatalogueAssumption
    <3>2. n \in Nat /\ DOMAIN Order = 1..n /\ \A i \in 1..n : Order[i] \in Dbs
      BY <3>1
    <3>3. \A d \in Dbs : d \in STRING
      BY CatalogueAssumption
    <3> HIDE DEF n
    <3> QED
      BY <3>2, <3>3
  <2>3. \A i \in 1..n : ts[i] \in T
    <3> TAKE i \in 1..n
    <3>1. CASE s[Order[i]] = Absent
      BY <1>3, <2>2, <3>1
    <3>2. CASE s[Order[i]] # Absent
      <4>1. ts[i] = Tagged(Order[i], Holds[s[Order[i]]].tables)
        BY <2>2, <3>2
      <4> QED
        BY <1>2, <2>2, <3>2, <4>1, TaggedType
    <3> QED
      BY <3>1, <3>2
  <2>4. ts = [i \in 1..n |-> ts[i]]
    BY <2>2
  <2> HIDE DEF T, n, ts
  <2>5. ts \in [1..n -> T]
    BY <2>3, <2>4
  <2>6. ts \in Seq(T)
    BY <2>2, <2>5
  <2>7. FlattenSeq(ts) \in Seq(TableDefs)
    BY <2>6, FlattenType DEF T
  <2> QED
    BY <1>1, <2>1, <2>7, CatalogueAssumption DEF Typed, Description
<1>5. CASE ~multi
  <2>1. TablesTold(a.schema) \in Seq(TableDefs)
    BY <1>2, <1>3, <1>5, CacheAssumption DEF TablesTold
  <2> QED
    BY <1>1, <2>1, CatalogueAssumption DEF Typed, Description
<1> QED
  BY <1>4, <1>5

(* two views of one kind in one query are of one description: both ask for *)
(* the tables and the routines of the database they are in                 *)
LEMMA OneDescription ==
  ASSUME OneFreshCatalogue, TypeOK, plan.cached, NEW a \in Told, NEW b \in Told, a.req.schema = b.req.schema,
         a.req.of.by \in {"sys", "info"}, b.req.of.by \in {"sys", "info"}
  PROVE  /\ Description(a).tables = Description(b).tables
         /\ Description(a).rts = Description(b).rts
<1>1. ASSUME NEW x \in Told, x.req.of.by \in {"sys", "info"}
      PROVE  x \in Answers /\ x \in answers /\ x.ok /\ x.req.routines = x.req.schema
  <2>1. x \in Answers /\ x \in answers /\ x.ok /\ x.req \in Requests /\ x.req.schema \in Keys
    BY DEF TypeOK, Told, Answers
  <2>2. x.req \in ToSet(ViewReqs(x.req.of))
    BY <1>1, <2>1, CatalogueAssumption DEF ReqsOf
  <2> DEFINE r == x.req
             o == x.req.of
             k == Scope(o)
  <2>3. r \in {Req(o, NoKey, NoKey, TRUE, FALSE), Req(o, NoKey, NoKey, FALSE, FALSE), Req(o, k, k, FALSE, FALSE)}
    <3> HIDE DEF r, o, k
    <3>1. \A e : ToSet(<<e>>) = {e}
      BY DEF ToSet
    <3>2. ViewReqs(o) \in {<<Req(o, NoKey, NoKey, TRUE, FALSE)>>, <<Req(o, NoKey, NoKey, FALSE, FALSE)>>,
                           <<Req(o, k, k, FALSE, FALSE)>>}
      BY DEF ViewReqs, k
    <3> DEFINE e1 == Req(o, NoKey, NoKey, TRUE, FALSE)
               e2 == Req(o, NoKey, NoKey, FALSE, FALSE)
               e3 == Req(o, k, k, FALSE, FALSE)
               V  == ViewReqs(o)
    <3>3. r \in ToSet(V)
      BY <2>2 DEF r, o
    <3>4. V = <<e1>> \/ V = <<e2>> \/ V = <<e3>>
      BY <3>2
    <3> HIDE DEF e1, e2, e3, V
    <3>5. r \in {e1, e2, e3}
      BY <3>1, <3>3, <3>4
    <3> QED
      BY <3>5 DEF e1, e2, e3
  <2>4. r.schema \in {NoKey, k} /\ (r.schema = r.routines)
    <3> HIDE DEF r, o, k
    <3> QED
      BY <2>3 DEF Req
  <2> QED
    BY <2>1, <2>4
<1>2. /\ a \in answers /\ b \in answers /\ a.ok /\ b.ok
      /\ a.req.routines = a.req.schema /\ b.req.routines = b.req.schema
  BY <1>1
<1>3. SameAnswer(a, b)
  BY <1>2 DEF OneFreshCatalogue
<1>4. a.schema = b.schema /\ a.routines = b.routines
  BY <1>2, <1>3 DEF SameAnswer
<1> QED
  BY <1>4 DEF Description

(***************************************************************************)
(* The references of the views, of one description                         *)
(***************************************************************************)
LEMMA JoinOne ==
  ASSUME NEW rows, NEW c, NEW others, NEW e, \A r \in rows : \E o \in others : r[c] = o[e]
  PROVE  Join(rows, <<c>>, others, <<e>>)
<1>1. DOMAIN <<c>> = {1} /\ <<c>>[1] = c /\ <<e>>[1] = e
  OBVIOUS
<1> DEFINE on == <<c>>
           to == <<e>>
<1> HIDE DEF on, to
<1>2. DOMAIN on = {1} /\ on[1] = c /\ to[1] = e
  BY <1>1 DEF on, to
<1>3. Join(rows, on, others, to)
  BY <1>2 DEF Join
<1> QED
  BY <1>3 DEF on, to

LEMMA JoinTwo ==
  ASSUME NEW rows, NEW c1, NEW c2, NEW others, NEW e1, NEW e2,
         \A r \in rows : \E o \in others : r[c1] = o[e1] /\ r[c2] = o[e2]
  PROVE  Join(rows, <<c1, c2>>, others, <<e1, e2>>)
<1> DEFINE on == <<c1, c2>>
           to == <<e1, e2>>
<1>1. DOMAIN on = {1, 2} /\ on[1] = c1 /\ on[2] = c2 /\ to[1] = e1 /\ to[2] = e2
  OBVIOUS
<1> HIDE DEF on, to
<1>2. Join(rows, on, others, to)
  BY <1>1 DEF Join
<1> QED
  BY <1>2 DEF on, to

(* the parts of a typed description *)
LEMMA TypedIs ==
  ASSUME NEW d, Typed(d)
  PROVE  /\ DOMAIN d.tables = 1..Len(d.tables) /\ Len(d.tables) \in Nat
         /\ \A i \in 1..Len(d.tables) : d.tables[i] \in Tables(d)
         /\ \A t \in Tables(d) : t \in TableDefs
         /\ \A r \in ToSet(d.rts) : r \in RoutineDefs
<1>1. d.tables \in Seq(TableDefs) /\ d.rts \in Seq(RoutineDefs)
  BY DEF Typed
<1> DEFINE ts == d.tables
           rs == d.rts
<1> HIDE DEF ts, rs
<1>2. ts \in Seq(TableDefs) /\ rs \in Seq(RoutineDefs)
  BY <1>1 DEF ts, rs
<1>3. /\ DOMAIN ts = 1..Len(ts) /\ Len(ts) \in Nat /\ \A i \in 1..Len(ts) : ts[i] \in TableDefs
      /\ \A i \in DOMAIN rs : rs[i] \in RoutineDefs
  BY <1>2
<1> QED
  BY <1>3 DEF Tables, ToSet, ts, rs

LEMMA ColumnsOfObjects ==
  ASSUME NEW d
  PROVE  Join(ColumnsRows(d), <<"object_id">>, ObjectsRows(d), <<"object_id">>)
<1>1. \A r \in ColumnsRows(d) : \E o \in ObjectsRows(d) : r["object_id"] = o["object_id"]
  <2> TAKE r \in ColumnsRows(d)
  <2>1. PICK x \in Columns(d) : r.object_id = ObjectId(x.t.name)
    BY DEF ColumnsRows
  <2>2. x.t \in Tables(d)
    BY DEF Columns
  <2> DEFINE o == [name |-> x.t.name, object_id |-> ObjectId(x.t.name), type |-> "U"]
  <2>3. o \in ObjectsRows(d)
    BY <2>2 DEF ObjectsRows
  <2> QED
    BY <2>1, <2>3
<1> QED
  BY <1>1, JoinOne

LEMMA ObjectRow ==
  ASSUME NEW d
  PROVE  /\ \A t \in Tables(d) : \E o \in ObjectsRows(d) : o.object_id = ObjectId(t.name)
         /\ \A r \in ToSet(d.rts) : \E o \in ObjectsRows(d) : o.object_id = ObjectId(r.name)
<1>1. ASSUME NEW t \in Tables(d) PROVE \E o \in ObjectsRows(d) : o.object_id = ObjectId(t.name)
  <2> DEFINE o == [name |-> t.name, object_id |-> ObjectId(t.name), type |-> "U"]
  <2>1. o \in ObjectsRows(d)
    BY DEF ObjectsRows
  <2> QED
    BY <2>1
<1>2. ASSUME NEW r \in ToSet(d.rts) PROVE \E o \in ObjectsRows(d) : o.object_id = ObjectId(r.name)
  <2> DEFINE o == [name |-> r.name, object_id |-> ObjectId(r.name), type |-> RoutineTypeCodes[r.kind]]
  <2>1. o \in ObjectsRows(d)
    BY DEF ObjectsRows
  <2> QED
    BY <2>1
<1> QED
  BY <1>1, <1>2

LEMMA TableRow ==
  ASSUME NEW d, NEW t \in Tables(d)
  PROVE  \E o \in TablesRows(d) : o.object_id = ObjectId(t.name)
<1> DEFINE o == [name |-> t.name, object_id |-> ObjectId(t.name)]
<1>1. o \in TablesRows(d)
  BY DEF TablesRows
<1> QED
  BY <1>1

(* a column that is there has a place                                      *)
LEMMA ColIdIs ==
  ASSUME NEW t \in TableDefs, NEW c, HasColumn(t, c)
  PROVE  ColId(t, c) \in DOMAIN t.columns /\ Lc(t.columns[ColId(t, c)].name) = Lc(c)
<1> DEFINE cs == t.columns
           at == {i \in DOMAIN cs : Lc(cs[i].name) = Lc(c)}
<1>1. cs \in Seq(ColumnDefs)
  BY DEF TableDefs
<1>2. at \subseteq Nat /\ at # {}
  <2>1. DOMAIN cs \subseteq Nat
    <3> HIDE DEF cs
    <3> QED
      BY <1>1
  <2> QED
    BY <2>1 DEF HasColumn
<1>3. \E i \in at : \A j \in at : i <= j
  <2> HIDE DEF at
  <2> QED
    BY <1>2, LeastNumber
<1>4. ColId(t, c) = CHOOSE i \in at : \A j \in at : i <= j
  BY <1>2 DEF ColId
<1>5. ColId(t, c) \in at
  <2> HIDE DEF at
  <2> QED
    BY <1>3, <1>4
<1> QED
  BY <1>5

LEMMA ColumnRow ==
  ASSUME NEW d, NEW t \in Tables(d), NEW i \in DOMAIN t.columns
  PROVE  \E o \in ColumnsRows(d) : o.object_id = ObjectId(t.name) /\ o.column_id = i
<1> DEFINE x == [t |-> t, i |-> i, c |-> t.columns[i]]
           o == [object_id |-> ObjectId(x.t.name), name |-> x.c.name, column_id |-> x.i,
                 user_type_id |-> SysTypeId(x.c.type), max_length |-> SysTypeLen(x.c.type),
                 is_nullable |-> x.c.type.null]
<1>1. x \in Columns(d)
  BY DEF Columns
<1>2. o \in ColumnsRows(d)
  <2> HIDE DEF x
  <2> QED
    BY <1>1 DEF ColumnsRows
<1>3. o.object_id = ObjectId(t.name) /\ o.column_id = i
  OBVIOUS
<1> QED
  BY <1>2, <1>3

LEMMA TableIndexesIs ==
  ASSUME NEW t \in TableDefs
  PROVE  \E n \in Nat : DOMAIN TableIndexes(t) = 1..n
<1> DEFINE made == [name |-> <<"PK">> \o t.name, cols |-> t.key, unique |-> TRUE, primary |-> TRUE,
                    clustered |-> TRUE]
           ixs  == t.indexes
           S    == IndexDefs \cup {made}
<1>1. ixs \in Seq(IndexDefs)
  BY DEF TableDefs
<1>2. made \in S /\ IndexDefs \subseteq S
  OBVIOUS
<1>3. TableIndexes(t) \in {ixs, <<made>> \o ixs}
  BY DEF TableIndexes
<1> DEFINE all == TableIndexes(t)
<1> HIDE DEF made, ixs, S, all
<1>4. ixs \in Seq(S)
  BY <1>1, <1>2
<1>5. <<made>> \o ixs \in Seq(S)
  BY <1>2, <1>4
<1>6. all \in Seq(S)
  BY <1>3, <1>4, <1>5 DEF all
<1>7. Len(all) \in Nat /\ DOMAIN all = 1..Len(all)
  BY <1>6
<1> DEFINE n == Len(all)
<1>8. n \in Nat /\ DOMAIN all = 1..n
  BY <1>7
<1> HIDE DEF n
<1>9. \E k \in Nat : DOMAIN all = 1..k
  BY <1>8
<1> QED
  BY <1>9 DEF all

(* numbers by place and by kind are the same if the clustered index, and   *)
(* it alone, is first                                                      *)
LEMMA IndexNumber ==
  ASSUME NEW t \in TableDefs, NumberedAlike(t), NEW i \in DOMAIN TableIndexes(t)
  PROVE  IndexId(t, i) = i
<1> DEFINE ixs == TableIndexes(t)
           T   == {j \in 1..(i - 1) : ~ixs[j].clustered}
<1>1. i \in Nat /\ i >= 1 /\ \A j \in 1..i : ixs[j].clustered <=> j = 1
  <2>1. PICK n \in Nat : DOMAIN ixs = 1..n
    BY TableIndexesIs
  <2>2. \A j \in DOMAIN ixs : ixs[j].clustered <=> j = 1
    BY DEF NumberedAlike
  <2> HIDE DEF ixs
  <2>3. i \in DOMAIN ixs
    BY DEF ixs
  <2> QED
    BY <2>1, <2>2, <2>3
<1>2. IndexId(t, i) = IF ixs[i].clustered THEN 1 ELSE 2 + Cardinality(T)
  BY DEF IndexId
<1> HIDE DEF ixs
<1>3. CASE i = 1
  BY <1>1, <1>2, <1>3
<1>4. CASE i # 1
  <2>1. T = 2..(i - 1)
    BY <1>1, <1>4
  <2>2. Cardinality(2..(i - 1)) = IF 2 > i - 1 THEN 0 ELSE (i - 1) - 2 + 1
    BY <1>1, FS_Interval
  <2>3. Cardinality(2..(i - 1)) = i - 2
    BY <1>1, <1>4, <2>2
  <2>4. Cardinality(T) = i - 2
    BY <2>1, <2>3
  <2>5. ~ixs[i].clustered
    BY <1>1, <1>4
  <2> HIDE DEF T
  <2> QED
    BY <1>1, <1>2, <2>4, <2>5
<1> QED
  BY <1>3, <1>4

LEMMA IndexRow ==
  ASSUME NEW d, NEW t \in Tables(d), t \in TableDefs, NumberedAlike(t), NEW i \in DOMAIN TableIndexes(t)
  PROVE  \E o \in IndexesRows(d) : o.object_id = ObjectId(t.name) /\ o.index_id = i
<1> DEFINE x == [t |-> t, i |-> i, ix |-> TableIndexes(t)[i]]
           o == [object_id |-> ObjectId(x.t.name), name |-> x.ix.name, index_id |-> IndexId(x.t, x.i),
                 is_primary_key |-> x.ix.primary]
<1>1. x \in Indexes(d)
  BY DEF Indexes
<1>2. o \in IndexesRows(d)
  <2> HIDE DEF x
  <2> QED
    BY <1>1 DEF IndexesRows
<1>3. o.object_id = ObjectId(t.name) /\ o.index_id = i
  BY IndexNumber
<1> QED
  BY <1>2, <1>3

(* the foreign keys are those of the tables, in their order                *)
Owned(d) == UNION {{[t |-> t, fk |-> f] : f \in ToSet(t.fks)} : t \in Tables(d)}

KeysOf(t) == [k \in DOMAIN t.fks |-> [t |-> t, fk |-> t.fks[k]]]

LEMMA ForeignKeysAre ==
  ASSUME NEW d, Typed(d)
  PROVE  LET ss == [i \in 1..Len(d.tables) |-> KeysOf(d.tables[i])]
         IN ForeignKeys(d) = FlattenSeq(ss) /\ ss \in Seq(Seq(Owned(d)))
<1> DEFINE S == Owned(d)
           n == Len(d.tables)
           g(i) == KeysOf(d.tables[i])
           ss == [i \in 1..n |-> g(i)]
<1>1. ASSUME NEW i \in 1..n PROVE g(i) \in Seq(S)
  <2> DEFINE t == d.tables[i]
             m == Len(t.fks)
             h(k) == [t |-> t, fk |-> t.fks[k]]
  <2>1. t \in Tables(d) /\ t.fks \in Seq(KeyDefs)
    BY TypedIs DEF TableDefs
  <2> HIDE DEF t
  <2>2. DOMAIN t.fks = 1..m /\ m \in Nat
    <3> DEFINE fs == t.fks
    <3> HIDE DEF fs
    <3>1. DOMAIN fs = 1..Len(fs) /\ Len(fs) \in Nat
      BY <2>1 DEF fs
    <3> QED
      BY <3>1 DEF fs
  <2>3. \A k \in 1..m : h(k) \in S
    <3>1. \A k \in 1..m : t.fks[k] \in ToSet(t.fks)
      BY <2>2 DEF ToSet
    <3> TAKE k \in 1..m
    <3>2. h(k) \in {[t |-> t, fk |-> f] : f \in ToSet(t.fks)}
      BY <3>1
    <3> QED
      BY <2>1, <3>2 DEF Owned
  <2>4. g(i) = [k \in 1..m |-> h(k)]
    BY <2>2 DEF t, KeysOf
  <2> HIDE DEF S, m, h
  <2>5. [k \in 1..m |-> h(k)] \in [1..m -> S]
    BY <2>3
  <2>6. [k \in 1..m |-> h(k)] \in Seq(S)
    BY <2>2, <2>5
  <2> QED
    BY <2>4, <2>6
<1>2. n \in Nat /\ DOMAIN d.tables = 1..n
  BY TypedIs
<1>3. ForeignKeys(d) = FlattenSeq(ss)
  BY <1>2 DEF ForeignKeys, KeysOf
<1>4. ss \in Seq(Seq(S))
  <2> DEFINE U == Seq(S)
  <2> HIDE DEF g, S, n, U
  <2>1. ss \in [1..n -> U]
    BY <1>1 DEF U
  <2>2. ss \in Seq(U)
    BY <1>2, <2>1
  <2> QED
    BY <2>2 DEF U
<1> QED
  BY <1>3, <1>4

LEMMA ForeignKeyIs ==
  ASSUME NEW d, Typed(d), NEW x \in ToSet(ForeignKeys(d))
  PROVE  x.t \in Tables(d) /\ x.fk \in ToSet(x.t.fks)
<1> DEFINE ss  == [i \in 1..Len(d.tables) |-> KeysOf(d.tables[i])]
           S   == Owned(d)
           fks == ForeignKeys(d)
<1>1. fks = FlattenSeq(ss) /\ ss \in Seq(Seq(S))
  BY ForeignKeysAre
<1>2. fks \in Seq(S)
  <2> HIDE DEF ss, S
  <2> QED
    BY <1>1, FlattenType
<1>3. x \in S
  <2> HIDE DEF S, fks
  <2>1. x \in ToSet(fks)
    BY DEF fks
  <2> QED
    BY <1>2, <2>1 DEF ToSet
<1> QED
  BY <1>3 DEF Owned

LEMMA ForeignKeyHas ==
  ASSUME NEW d, Typed(d), NEW t \in Tables(d), NEW f \in ToSet(t.fks)
  PROVE  [t |-> t, fk |-> f] \in ToSet(ForeignKeys(d))
<1> DEFINE ss == [i \in 1..Len(d.tables) |-> KeysOf(d.tables[i])]
           x  == [t |-> t, fk |-> f]
           S  == Owned(d)
<1>1. ForeignKeys(d) = FlattenSeq(ss) /\ ss \in Seq(Seq(S))
  BY ForeignKeysAre
<1>2. PICK i \in 1..Len(d.tables) : d.tables[i] = t
  BY TypedIs DEF Tables, ToSet
<1>3. PICK k \in DOMAIN t.fks : t.fks[k] = f
  BY DEF ToSet
<1>4. KeysOf(t)[k] = x /\ k \in DOMAIN KeysOf(t)
  BY <1>3 DEF KeysOf
<1>5. ss[i] = KeysOf(t) /\ Len(d.tables) \in Nat
  BY <1>2, TypedIs
<1>6. x \in ToSet(ss[i])
  <2> HIDE DEF x, ss
  <2> QED
    BY <1>4, <1>5 DEF ToSet
<1>7. i \in 1..Len(ss)
  BY <1>2, <1>5
<1> HIDE DEF x, ss, S
<1>8. x \in ToSet(FlattenSeq(ss))
  BY <1>1, <1>6, <1>7, FlattenHas
<1> QED
  BY <1>1, <1>8 DEF x

(* a key refers to the last of the tables of that name                     *)
LEMMA ReferencedIs ==
  ASSUME NEW d, Typed(d), NEW n
  PROVE  /\ Referenced(d, n) \subseteq Tables(d)
         /\ (\E t \in Tables(d) : t.name = n) => \E t \in Tables(d) : IdOf(Referenced(d, n)) = ObjectId(t.name)
<1> DEFINE named == {i \in DOMAIN d.tables : EqualFold(d.tables[i].name, n)}
           last  == {j \in named : \A k \in named : k <= j}
<1>1. Referenced(d, n) = {d.tables[i] : i \in last}
  BY DEF Referenced, LastOf
<1>2. Referenced(d, n) \subseteq Tables(d)
  BY <1>1, TypedIs
<1>3. ASSUME NEW t \in Tables(d), t.name = n PROVE \E u \in Tables(d) : IdOf(Referenced(d, n)) = ObjectId(u.name)
  <2>1. PICK i \in DOMAIN d.tables : d.tables[i] = t
    BY DEF Tables, ToSet
  <2>2. i \in named
    BY <1>3, <2>1 DEF EqualFold
  <2>3. named \subseteq 1..Len(d.tables) /\ Len(d.tables) \in Nat
    BY TypedIs
  <2>4. last # {}
    <3>1. named # {}
      BY <2>2
    <3> HIDE DEF named
    <3>2. \E j \in named : \A k \in named : k <= j
      BY <2>3, <3>1, GreatestPlace
    <3> QED
      BY <3>2
  <2> DEFINE R == Referenced(d, n)
  <2>5. R # {}
    BY <1>1, <2>4
  <2> HIDE DEF R, last, named
  <2>6. IdOf(R) = ObjectId((CHOOSE u \in R : TRUE).name)
    BY <2>5 DEF IdOf
  <2>7. (CHOOSE u \in R : TRUE) \in R
    BY <2>5
  <2> QED
    BY <1>2, <2>6, <2>7 DEF R
<1> QED
  BY <1>2, <1>3

(* a type that sys.types lists has the number of a row of it               *)
LEMMA TypeRow ==
  ASSUME NEW t, t.decl \notin Unlisted
  PROVE  \E o \in TypesRows : o.user_type_id = SysTypeId(t)
<1> DEFINE Ids == {104, 48, 52, 56, 127, 106, 108, 62, 59, 40, 41, 61, 42, 175, 167, 239, 231, 173, 165, 36}
           X   == {<<"bit", 104, 1>>, <<"tinyint", 48, 1>>, <<"smallint", 52, 2>>, <<"int", 56, 4>>,
                   <<"bigint", 127, 8>>, <<"decimal", 106, 17>>, <<"numeric", 108, 17>>, <<"float", 62, 8>>,
                   <<"real", 59, 4>>, <<"date", 40, 3>>, <<"time", 41, 5>>, <<"datetime", 61, 8>>,
                   <<"datetime2", 42, 8>>, <<"char", 175, -1>>, <<"varchar", 167, -1>>, <<"nchar", 239, -1>>,
                   <<"nvarchar", 231, -1>>, <<"binary", 173, -1>>, <<"varbinary", 165, -1>>,
                   <<"uniqueidentifier", 36, 16>>}
           f(x) == [name |-> x[1], user_type_id |-> x[2], max_length |-> x[3]]
<1>1. TypesRows = {f(x) : x \in X}
  BY DEF TypesRows
<1>2. \A n \in Ids : \E x \in X : x[2] = n
  OBVIOUS
<1>3. \A d \in DOMAIN DeclId : d \notin Unlisted => DeclId[d] \in Ids
  BY DEF DeclId, Unlisted
<1>4. \A k \in DOMAIN KindId : KindId[k] \in Ids
  BY DEF KindId
<1>5. 231 \in Ids
  OBVIOUS
<1> HIDE DEF Ids, X
<1>6. SysTypeIdByName(t.decl) \in Ids
  BY <1>3, <1>5 DEF SysTypeIdByName, Lookup
<1>7. Lookup(KindId, t.kind, 231) \in Ids
  BY <1>4, <1>5 DEF Lookup
<1>8. SysTypeId(t) \in Ids
  BY <1>6, <1>7, Zenon DEF SysTypeId
<1>9. PICK x \in X : x[2] = SysTypeId(t)
  BY <1>2, <1>8
<1>10. f(x) \in TypesRows /\ f(x).user_type_id = x[2]
  BY <1>1
<1> QED
  BY <1>9, <1>10

LEMMA ColumnsOfTypes ==
  ASSUME NEW d, WellKept(d)
  PROVE  Join(ColumnsRows(d), <<"user_type_id">>, TypesRows, <<"user_type_id">>)
<1>1. \A r \in ColumnsRows(d) : \E o \in TypesRows : r["user_type_id"] = o["user_type_id"]
  <2> TAKE r \in ColumnsRows(d)
  <2>1. PICK x \in Columns(d) : r.user_type_id = SysTypeId(x.c.type)
    BY DEF ColumnsRows
  <2>2. PICK t \in Tables(d) : \E i \in DOMAIN t.columns : x.c = t.columns[i]
    BY DEF Columns
  <2>3. x.c \in ToSet(t.columns)
    BY <2>2 DEF ToSet
  <2>4. x.c.type.decl \notin Unlisted
    BY <2>3 DEF WellKept
  <2> QED
    BY <2>1, <2>4, TypeRow
<1> QED
  BY <1>1, JoinOne

LEMMA IndexIs ==
  ASSUME NEW d, NEW x \in Indexes(d)
  PROVE  x.t \in Tables(d) /\ x.i \in DOMAIN TableIndexes(x.t) /\ x.ix = TableIndexes(x.t)[x.i]
  BY DEF Indexes

LEMMA IndexesOfTables ==
  ASSUME NEW d
  PROVE  Join(IndexesRows(d), <<"object_id">>, TablesRows(d), <<"object_id">>)
<1>1. \A r \in IndexesRows(d) : \E t \in Tables(d) : r["object_id"] = ObjectId(t.name)
  BY IndexIs DEF IndexesRows
<1>2. \A r \in IndexesRows(d) : \E o \in TablesRows(d) : r["object_id"] = o["object_id"]
  BY <1>1, TableRow
<1> QED
  BY <1>2, JoinOne

LEMMA IndexColumnIs ==
  ASSUME NEW d, NEW r \in IndexColumnsRows(d)
  PROVE  \E x \in Indexes(d) : \E j \in DOMAIN x.ix.cols :
           /\ r.object_id = ObjectId(x.t.name) /\ r.index_id = x.i
           /\ r.column_id = ColId(x.t, x.ix.cols[j])
  BY DEF IndexColumnsRows

LEMMA IndexColumnsOfIndexes ==
  ASSUME NEW d, Typed(d), WellKept(d)
  PROVE  Join(IndexColumnsRows(d), <<"object_id", "index_id">>, IndexesRows(d), <<"object_id", "index_id">>)
<1>1. \A r \in IndexColumnsRows(d) : \E o \in IndexesRows(d) :
        r["object_id"] = o["object_id"] /\ r["index_id"] = o["index_id"]
  <2> TAKE r \in IndexColumnsRows(d)
  <2>1. PICK x \in Indexes(d) : r.object_id = ObjectId(x.t.name) /\ r.index_id = x.i
    BY IndexColumnIs
  <2>2. x.t \in Tables(d) /\ x.i \in DOMAIN TableIndexes(x.t) /\ x.t \in TableDefs /\ NumberedAlike(x.t)
    BY IndexIs, TypedIs DEF WellKept
  <2>3. PICK o \in IndexesRows(d) : o.object_id = ObjectId(x.t.name) /\ o.index_id = x.i
    BY <2>2, IndexRow
  <2> QED
    BY <2>1, <2>3
<1> QED
  BY <1>1, JoinTwo

(* a column, by its name, is one of sys.columns                            *)
LEMMA NamedColumnRow ==
  ASSUME NEW d, Typed(d), NEW t \in Tables(d), NEW c, HasColumn(t, c)
  PROVE  \E o \in ColumnsRows(d) : o.object_id = ObjectId(t.name) /\ o.column_id = ColId(t, c)
  BY TypedIs, ColIdIs, ColumnRow

LEMMA IndexColumnsOfColumns ==
  ASSUME NEW d, Typed(d), WellKept(d)
  PROVE  Join(IndexColumnsRows(d), <<"object_id", "column_id">>, ColumnsRows(d), <<"object_id", "column_id">>)
<1>1. \A r \in IndexColumnsRows(d) : \E o \in ColumnsRows(d) :
        r["object_id"] = o["object_id"] /\ r["column_id"] = o["column_id"]
  <2> TAKE r \in IndexColumnsRows(d)
  <2>0. PICK x \in Indexes(d) : \E j \in DOMAIN x.ix.cols :
          r.object_id = ObjectId(x.t.name) /\ r.column_id = ColId(x.t, x.ix.cols[j])
    BY IndexColumnIs
  <2>1. PICK j \in DOMAIN x.ix.cols : r.object_id = ObjectId(x.t.name) /\ r.column_id = ColId(x.t, x.ix.cols[j])
    BY <2>0
  <2> DEFINE t == x.t
             c == x.ix.cols[j]
  <2>2. t \in Tables(d) /\ x.ix \in ToSet(TableIndexes(t)) /\ c \in ToSet(x.ix.cols)
    BY IndexIs DEF ToSet
  <2>3. HasColumn(t, c)
    BY <2>2 DEF WellKept
  <2> HIDE DEF t, c
  <2>4. PICK o \in ColumnsRows(d) : o.object_id = ObjectId(t.name) /\ o.column_id = ColId(t, c)
    BY <2>2, <2>3, NamedColumnRow
  <2> QED
    BY <2>1, <2>4 DEF t, c
<1> QED
  BY <1>1, JoinTwo

LEMMA KeyConstraintsOfIndexes ==
  ASSUME NEW d, Typed(d), WellKept(d)
  PROVE  Join(KeyConstraintsRows(d), <<"parent_object_id", "unique_index_id">>,
              IndexesRows(d), <<"object_id", "index_id">>)
<1>1. \A r \in KeyConstraintsRows(d) : \E o \in IndexesRows(d) :
        r["parent_object_id"] = o["object_id"] /\ r["unique_index_id"] = o["index_id"]
  <2> TAKE r \in KeyConstraintsRows(d)
  <2>1. PICK x \in Indexes(d) : r.parent_object_id = ObjectId(x.t.name) /\ r.unique_index_id = x.i
    BY DEF KeyConstraintsRows
  <2>2. x.t \in Tables(d) /\ x.i \in DOMAIN TableIndexes(x.t) /\ x.t \in TableDefs /\ NumberedAlike(x.t)
    BY IndexIs, TypedIs DEF WellKept
  <2>3. PICK o \in IndexesRows(d) : o.object_id = ObjectId(x.t.name) /\ o.index_id = x.i
    BY <2>2, IndexRow
  <2> QED
    BY <2>1, <2>3
<1> QED
  BY <1>1, JoinTwo

(* a foreign key with its table and the table it refers to                 *)
LEMMA KeptForeignKey ==
  ASSUME NEW d, Typed(d), WellKept(d), NEW x \in ToSet(ForeignKeys(d))
  PROVE  /\ x.t \in Tables(d)
         /\ \A c \in ToSet(x.fk.cols) : HasColumn(x.t, c)
         /\ \E u \in Tables(d) : u.name = x.fk.ref /\ u.key # <<>>
<1>1. x.t \in Tables(d) /\ x.fk \in ToSet(x.t.fks)
  BY ForeignKeyIs
<1> QED
  BY <1>1 DEF WellKept

LEMMA ForeignKeyColumnsOfColumns ==
  ASSUME NEW d, Typed(d), WellKept(d)
  PROVE  Join(ForeignKeyColumnsRows(d), <<"parent_object_id", "parent_column_id">>,
              ColumnsRows(d), <<"object_id", "column_id">>)
<1>1. \A r \in ForeignKeyColumnsRows(d) : \E o \in ColumnsRows(d) :
        r["parent_object_id"] = o["object_id"] /\ r["parent_column_id"] = o["column_id"]
  <2> TAKE r \in ForeignKeyColumnsRows(d)
  <2>0. PICK x \in ToSet(ForeignKeys(d)) : \E k \in DOMAIN x.fk.cols :
          r.parent_object_id = ObjectId(x.t.name) /\ r.parent_column_id = ColId(x.t, x.fk.cols[k])
    BY DEF ForeignKeyColumnsRows
  <2>1. PICK k \in DOMAIN x.fk.cols :
          r.parent_object_id = ObjectId(x.t.name) /\ r.parent_column_id = ColId(x.t, x.fk.cols[k])
    BY <2>0
  <2> DEFINE t == x.t
             c == x.fk.cols[k]
  <2>2. c \in ToSet(x.fk.cols)
    BY DEF ToSet
  <2>3. t \in Tables(d) /\ HasColumn(t, c)
    BY <2>2, KeptForeignKey
  <2> HIDE DEF t, c
  <2>4. PICK o \in ColumnsRows(d) : o.object_id = ObjectId(t.name) /\ o.column_id = ColId(t, c)
    BY <2>3, NamedColumnRow
  <2> QED
    BY <2>1, <2>4 DEF t, c
<1> QED
  BY <1>1, JoinTwo

LEMMA ForeignKeysOfTables ==
  ASSUME NEW d, Typed(d), WellKept(d)
  PROVE  Join(ForeignKeysRows(d), <<"referenced_object_id">>, TablesRows(d), <<"object_id">>)
<1>1. \A r \in ForeignKeysRows(d) : \E o \in TablesRows(d) : r["referenced_object_id"] = o["object_id"]
  <2> TAKE r \in ForeignKeysRows(d)
  <2>1. PICK n \in DOMAIN ForeignKeys(d) :
          r.referenced_object_id = IdOf(Referenced(d, ForeignKeys(d)[n].fk.ref))
    BY DEF ForeignKeysRows
  <2> DEFINE x == ForeignKeys(d)[n]
  <2>2. x \in ToSet(ForeignKeys(d))
    BY DEF ToSet
  <2> HIDE DEF x
  <2>3. \E u \in Tables(d) : u.name = x.fk.ref
    BY <2>2, KeptForeignKey
  <2>4. PICK u \in Tables(d) : IdOf(Referenced(d, x.fk.ref)) = ObjectId(u.name)
    BY <2>3, ReferencedIs
  <2> QED
    BY <2>1, <2>4, TableRow DEF x
<1> QED
  BY <1>1, JoinOne

LEMMA DefaultsOfColumns ==
  ASSUME NEW d
  PROVE  Join(DefaultConstraintsRows(d), <<"parent_object_id", "parent_column_id">>,
              ColumnsRows(d), <<"object_id", "column_id">>)
<1> DEFINE id(x) == ObjectId(<<"DF">> \o x.t.name \o <<x.c.name>>)
           f(x)  == [object_id |-> id(x), parent_object_id |-> ObjectId(x.t.name), parent_column_id |-> x.i]
<1>0. DefaultConstraintsRows(d) = {f(x) : x \in {y \in Columns(d) : y.c.default}}
  BY DEF DefaultConstraintsRows
<1> HIDE DEF id
<1>1. \A r \in DefaultConstraintsRows(d) : \E o \in ColumnsRows(d) :
        r["parent_object_id"] = o["object_id"] /\ r["parent_column_id"] = o["column_id"]
  <2> TAKE r \in DefaultConstraintsRows(d)
  <2>1. PICK x \in Columns(d) : r.parent_object_id = ObjectId(x.t.name) /\ r.parent_column_id = x.i
    BY <1>0
  <2>2. x.t \in Tables(d) /\ x.i \in DOMAIN x.t.columns
    BY DEF Columns
  <2> QED
    BY <2>1, <2>2, ColumnRow
<1> QED
  BY <1>1, JoinTwo

LEMMA ModulesOfObjects ==
  ASSUME NEW d
  PROVE  Join(SqlModulesRows(d), <<"object_id">>, ObjectsRows(d), <<"object_id">>)
<1>1. \A r \in SqlModulesRows(d) : \E o \in ObjectsRows(d) : r["object_id"] = o["object_id"]
  BY ObjectRow DEF SqlModulesRows
<1> QED
  BY <1>1, JoinOne

LEMMA ParametersOfObjects ==
  ASSUME NEW d
  PROVE  Join(ParametersRows(d), <<"object_id">>, ObjectsRows(d), <<"object_id">>)
<1>1. \A p \in ParametersRows(d) : \E r \in ToSet(d.rts) : p["object_id"] = ObjectId(r.name)
  BY DEF ParametersRows
<1>2. \A p \in ParametersRows(d) : \E o \in ObjectsRows(d) : p["object_id"] = o["object_id"]
  BY <1>1, ObjectRow
<1> QED
  BY <1>2, JoinOne

LEMMA DependenciesOfObjects ==
  ASSUME NEW d, WellKept(d)
  PROVE  Join(DependenciesRows(d), <<"referenced_id">>, ObjectsRows(d), <<"object_id">>)
<1>1. \A r \in DependenciesRows(d) : \E o \in ObjectsRows(d) : r["referenced_id"] = o["object_id"]
  <2> TAKE r \in DependenciesRows(d)
  <2>0. PICK v \in Routines(d, {"view"}) : \E n \in ReferencedNames(v) :
          r.referenced_id = IF Folded(n) \in Known(d) THEN ObjectId(n) ELSE NoId
    BY DEF DependenciesRows
  <2>1. PICK n \in ReferencedNames(v) : r.referenced_id = IF Folded(n) \in Known(d) THEN ObjectId(n) ELSE NoId
    BY <2>0
  <2>2. n \in {o.name : o \in ObjectsRows(d)}
    BY DEF WellKept
  <2>3. PICK o \in ObjectsRows(d) : o.name = n
    BY <2>2
  <2>4. o.object_id = ObjectId(n) /\ Folded(n) \in Known(d)
    BY <2>3 DEF ObjectsRows, Known
  <2> QED
    BY <2>1, <2>4
<1> QED
  BY <1>1, JoinOne

(* a key, and a foreign key, is a constraint                               *)
LEMMA ConstraintRow ==
  ASSUME NEW d
  PROVE  /\ \A t \in Tables(d) : t.key # <<>> => \E o \in TableConstraintsRows(d) : o.CONSTRAINT_NAME = PkName(t.name)
         /\ \A x \in ToSet(ForeignKeys(d)) : \E o \in TableConstraintsRows(d) : o.CONSTRAINT_NAME = FkName(x.t, x.fk)
<1> DEFINE pk      == "PRIMARY KEY"
           fk      == "FOREIGN KEY"
           key(t)  == [CONSTRAINT_NAME |-> PkName(t.name), TABLE_NAME |-> t.name, CONSTRAINT_TYPE |-> pk]
           fkey(x) == [CONSTRAINT_NAME |-> FkName(x.t, x.fk), TABLE_NAME |-> x.t.name, CONSTRAINT_TYPE |-> fk]
<1>1. TableConstraintsRows(d) = {key(t) : t \in {u \in Tables(d) : u.key # <<>>}} \cup
                                {fkey(x) : x \in ToSet(ForeignKeys(d))}
  BY Zenon DEF TableConstraintsRows
<1> HIDE DEF pk, fk
<1>2. /\ \A t : key(t).CONSTRAINT_NAME = PkName(t.name)
      /\ \A x : fkey(x).CONSTRAINT_NAME = FkName(x.t, x.fk)
  OBVIOUS
<1> HIDE DEF key, fkey
<1>3. /\ \A t \in Tables(d) : t.key # <<>> => key(t) \in TableConstraintsRows(d)
      /\ \A x \in ToSet(ForeignKeys(d)) : fkey(x) \in TableConstraintsRows(d)
  BY <1>1
<1> QED
  BY <1>2, <1>3

LEMMA KeyUsageOfConstraints ==
  ASSUME NEW d
  PROVE  Join(KeyColumnUsageRows(d), <<"CONSTRAINT_NAME">>, TableConstraintsRows(d), <<"CONSTRAINT_NAME">>)
<1>1. ASSUME NEW r \in KeyColumnUsageRows(d)
      PROVE  \/ \E t \in Tables(d) : t.key # <<>> /\ r.CONSTRAINT_NAME = PkName(t.name)
             \/ \E x \in ToSet(ForeignKeys(d)) : r.CONSTRAINT_NAME = FkName(x.t, x.fk)
  <2>1. \/ \E t \in Tables(d) : \E i \in DOMAIN t.key : r.CONSTRAINT_NAME = PkName(t.name)
        \/ \E x \in ToSet(ForeignKeys(d)) : \E i \in DOMAIN x.fk.cols : r.CONSTRAINT_NAME = FkName(x.t, x.fk)
    BY DEF KeyColumnUsageRows
  <2>2. \A s : s = <<>> => DOMAIN s = {}
    OBVIOUS
  <2> QED
    BY <2>1, <2>2
<1>2. \A r \in KeyColumnUsageRows(d) : \E o \in TableConstraintsRows(d) : r["CONSTRAINT_NAME"] = o["CONSTRAINT_NAME"]
  BY <1>1, ConstraintRow
<1> QED
  BY <1>2, JoinOne

LEMMA ReferentialOfConstraints ==
  ASSUME NEW d, Typed(d), WellKept(d)
  PROVE  Join(ReferentialConstraintsRows(d), <<"UNIQUE_CONSTRAINT_NAME">>,
              TableConstraintsRows(d), <<"CONSTRAINT_NAME">>)
<1>1. \A r \in ReferentialConstraintsRows(d) :
        \E o \in TableConstraintsRows(d) : r["UNIQUE_CONSTRAINT_NAME"] = o["CONSTRAINT_NAME"]
  <2> TAKE r \in ReferentialConstraintsRows(d)
  <2>1. PICK x \in ToSet(ForeignKeys(d)) : r.UNIQUE_CONSTRAINT_NAME = PkName(x.fk.ref)
    BY DEF ReferentialConstraintsRows
  <2>2. PICK u \in Tables(d) : u.name = x.fk.ref /\ u.key # <<>>
    BY KeptForeignKey
  <2>3. PICK o \in TableConstraintsRows(d) : o.CONSTRAINT_NAME = PkName(u.name)
    BY <2>2, ConstraintRow
  <2> QED
    BY <2>1, <2>2, <2>3
<1> QED
  BY <1>1, JoinOne

LEMMA ViewColumnsOfColumns ==
  ASSUME NEW d, Typed(d)
  PROVE  Join(ViewColumnUsageRows(d), <<"TABLE_NAME", "COLUMN_NAME">>,
              InfoColumnsRows(d), <<"TABLE_NAME", "COLUMN_NAME">>)
<1>1. ASSUME NEW t \in Tables(d), NEW c \in ToSet(t.columns)
      PROVE  \E o \in InfoColumnsRows(d) : o.TABLE_NAME = t.name /\ o.COLUMN_NAME = c.name
  <2>1. PICK i \in DOMAIN t.columns : t.columns[i] = c
    BY DEF ToSet
  <2> DEFINE x == [t |-> t, i |-> i, c |-> t.columns[i]]
  <2>2. x \in Columns(d)
    BY DEF Columns
  <2>3. x.t = t /\ x.c = c
    BY <2>1
  <2> HIDE DEF x
  <2> DEFINE o == [TABLE_NAME |-> x.t.name, COLUMN_NAME |-> x.c.name, ORDINAL_POSITION |-> x.i,
                   IS_NULLABLE |-> x.c.type.null, DATA_TYPE |-> TypeName(x.c.type),
                   CHARACTER_MAXIMUM_LENGTH |-> CharLen(x.c.type), NUMERIC_PRECISION |-> NumPrec(x.c.type),
                   NUMERIC_SCALE |-> NumScale(x.c.type)]
  <2>4. o \in InfoColumnsRows(d)
    BY <2>2 DEF InfoColumnsRows
  <2>5. o.TABLE_NAME = t.name /\ o.COLUMN_NAME = c.name
    BY <2>3
  <2> QED
    BY <2>4, <2>5
<1>2. \A r \in ViewColumnUsageRows(d) : \E o \in InfoColumnsRows(d) :
        r["TABLE_NAME"] = o["TABLE_NAME"] /\ r["COLUMN_NAME"] = o["COLUMN_NAME"]
  <2> TAKE r \in ViewColumnUsageRows(d)
  <2>1. PICK v \in Routines(d, {"view"}) : \E t \in UNION {Referenced(d, n) : n \in ReferencedNames(v)} :
          \E c \in ToSet(t.columns) : r.TABLE_NAME = t.name /\ r.COLUMN_NAME = c.name
    BY DEF ViewColumnUsageRows
  <2>2. PICK t \in UNION {Referenced(d, n) : n \in ReferencedNames(v)} :
          \E c \in ToSet(t.columns) : r.TABLE_NAME = t.name /\ r.COLUMN_NAME = c.name
    BY <2>1
  <2>3. PICK c \in ToSet(t.columns) : r.TABLE_NAME = t.name /\ r.COLUMN_NAME = c.name
    BY <2>2
  <2>4. t \in Tables(d)
    BY ReferencedIs
  <2> QED
    BY <1>1, <2>3, <2>4
<1> QED
  BY <1>2, JoinTwo

(***************************************************************************)
(* The views a query asks for                                              *)
(***************************************************************************)
(* what the views that references are between answer                       *)
LEMMA SysRowsAre ==
  ASSUME NEW d
  PROVE  /\ SysRows("columns", d) = ColumnsRows(d)
         /\ SysRows("objects", d) = ObjectsRows(d)
         /\ SysRows("indexes", d) = IndexesRows(d)
         /\ SysRows("tables", d) = TablesRows(d)
         /\ SysRows("index_columns", d) = IndexColumnsRows(d)
         /\ SysRows("key_constraints", d) = KeyConstraintsRows(d)
         /\ SysRows("foreign_key_columns", d) = ForeignKeyColumnsRows(d)
         /\ SysRows("foreign_keys", d) = ForeignKeysRows(d)
         /\ SysRows("default_constraints", d) = DefaultConstraintsRows(d)
         /\ SysRows("sql_modules", d) = SqlModulesRows(d)
         /\ SysRows("parameters", d) = ParametersRows(d)
         /\ SysRows("sql_expression_dependencies", d) = DependenciesRows(d)
         /\ SysRows("types", d) = TypesRows
<1>1. SysRows("columns", d) = ColumnsRows(d)
  BY DEF SysRows, Stubs, HaStubs
<1>2. SysRows("objects", d) = ObjectsRows(d)
  BY DEF SysRows, Stubs, HaStubs
<1>3. SysRows("indexes", d) = IndexesRows(d)
  BY DEF SysRows, Stubs, HaStubs
<1>4. SysRows("tables", d) = TablesRows(d)
  BY DEF SysRows, Stubs, HaStubs
<1>5. SysRows("index_columns", d) = IndexColumnsRows(d)
  BY DEF SysRows, Stubs, HaStubs
<1>6. SysRows("key_constraints", d) = KeyConstraintsRows(d)
  BY DEF SysRows, Stubs, HaStubs
<1>7. SysRows("foreign_key_columns", d) = ForeignKeyColumnsRows(d)
  BY DEF SysRows, Stubs, HaStubs
<1>8. SysRows("foreign_keys", d) = ForeignKeysRows(d)
  BY DEF SysRows, Stubs, HaStubs
<1>9. SysRows("default_constraints", d) = DefaultConstraintsRows(d)
  BY DEF SysRows, Stubs, HaStubs
<1>10. SysRows("sql_modules", d) = SqlModulesRows(d)
  BY DEF SysRows, Stubs, HaStubs
<1>11. SysRows("parameters", d) = ParametersRows(d)
  BY DEF SysRows, Stubs, HaStubs
<1>12. SysRows("sql_expression_dependencies", d) = DependenciesRows(d)
  BY DEF SysRows, Stubs, HaStubs
<1>13. SysRows("types", d) = TypesRows
  BY DEF SysRows, Stubs, HaStubs
<1> QED
  BY <1>1, <1>2, <1>3, <1>4, <1>5, <1>6, <1>7, <1>8, <1>9, <1>10, <1>11, <1>12, <1>13

LEMMA InfoRowsAre ==
  ASSUME NEW d
  PROVE  /\ InfoRows("KEY_COLUMN_USAGE", d) = KeyColumnUsageRows(d)
         /\ InfoRows("TABLE_CONSTRAINTS", d) = TableConstraintsRows(d)
         /\ InfoRows("REFERENTIAL_CONSTRAINTS", d) = ReferentialConstraintsRows(d)
         /\ InfoRows("VIEW_COLUMN_USAGE", d) = ViewColumnUsageRows(d)
         /\ InfoRows("COLUMNS", d) = InfoColumnsRows(d)
  BY DEF InfoRows

(* the rows of a view are of the tables and the routines alone             *)
LEMMA SameRows ==
  ASSUME NEW d, NEW e, d.tables = e.tables, d.rts = e.rts
  PROVE  /\ ObjectsRows(d) = ObjectsRows(e) /\ TablesRows(d) = TablesRows(e)
         /\ ColumnsRows(d) = ColumnsRows(e) /\ InfoColumnsRows(d) = InfoColumnsRows(e)
         /\ IndexesRows(d) = IndexesRows(e) /\ ForeignKeysRows(d) = ForeignKeysRows(e)
         /\ TableConstraintsRows(d) = TableConstraintsRows(e)
<1>1. /\ Tables(d) = Tables(e) /\ ForeignKeys(d) = ForeignKeys(e)
      /\ \A n : Referenced(d, n) = Referenced(e, n)
  BY DEF Tables, ForeignKeys, Referenced
<1>2. Columns(d) = Columns(e) /\ Indexes(d) = Indexes(e)
  BY <1>1, Zenon DEF Columns, Indexes
<1>3. ObjectsRows(d) = ObjectsRows(e) /\ TablesRows(d) = TablesRows(e)
  BY <1>1, Zenon DEF ObjectsRows, TablesRows
<1>4. ColumnsRows(d) = ColumnsRows(e) /\ InfoColumnsRows(d) = InfoColumnsRows(e)
  BY <1>2, Zenon DEF ColumnsRows, InfoColumnsRows
<1>5. IndexesRows(d) = IndexesRows(e)
  BY <1>1, <1>2, Zenon DEF IndexesRows
<1>6. ForeignKeysRows(d) = ForeignKeysRows(e)
  <2> DEFINE fks == ForeignKeys(e)
             f(c) == {[name |-> FkName(fks[n].t, fks[n].fk), object_id |-> <<"#", 199 + n>>,
                       parent_object_id |-> ObjectId(fks[n].t.name),
                       referenced_object_id |-> IdOf(Referenced(c, fks[n].fk.ref))] : n \in DOMAIN fks}
  <2>1. ForeignKeysRows(d) = f(d) /\ ForeignKeysRows(e) = f(e)
    BY <1>1, Zenon DEF ForeignKeysRows
  <2>2. f(d) = f(e)
    BY <1>1
  <2> QED
    BY <2>1, <2>2
<1>7. TableConstraintsRows(d) = TableConstraintsRows(e)
  BY <1>1, Zenon DEF TableConstraintsRows
<1> QED
  BY <1>3, <1>4, <1>5, <1>6, <1>7

LEMMA JoinOf ==
  ASSUME NEW rows, NEW others, NEW p, NEW on, NEW to, p = <<on, to>>, Join(rows, on, others, to)
  PROVE  Join(rows, p[1], others, p[2])
<1>1. p[1] = on /\ p[2] = to
  OBVIOUS
<1> QED
  BY <1>1

LEMMA SysReferencesLead ==
  ASSUME NEW d, NEW e, Typed(d), WellKept(d), d.tables = e.tables, d.rts = e.rts,
         NEW v, NEW w, SysReferences(v, w)[1] # <<>>
  PROVE  Join(SysRows(v, d), SysReferences(v, w)[1], SysRows(w, e), SysReferences(v, w)[2])
<1> DEFINE p == SysReferences(v, w)
<1>1. CASE v = "columns" /\ w = "objects"
  <2>1. p = <<<<"object_id">>, <<"object_id">>>>
    BY <1>1 DEF SysReferences
  <2>2. Join(SysRows(v, d), <<"object_id">>, SysRows(w, e), <<"object_id">>)
    BY <1>1, ColumnsOfObjects, SysRowsAre, SameRows
  <2> QED
    BY <2>1, <2>2, JoinOf
<1>2. CASE v = "columns" /\ w = "types"
  <2>1. p = <<<<"user_type_id">>, <<"user_type_id">>>>
    BY <1>2 DEF SysReferences
  <2>2. Join(SysRows(v, d), <<"user_type_id">>, SysRows(w, e), <<"user_type_id">>)
    BY <1>2, ColumnsOfTypes, SysRowsAre, SameRows
  <2> QED
    BY <2>1, <2>2, JoinOf
<1>3. CASE v = "indexes" /\ w = "tables"
  <2>1. p = <<<<"object_id">>, <<"object_id">>>>
    BY <1>3 DEF SysReferences
  <2>2. Join(SysRows(v, d), <<"object_id">>, SysRows(w, e), <<"object_id">>)
    BY <1>3, IndexesOfTables, SysRowsAre, SameRows
  <2> QED
    BY <2>1, <2>2, JoinOf
<1>4. CASE v = "index_columns" /\ w = "indexes"
  <2>1. p = <<<<"object_id", "index_id">>, <<"object_id", "index_id">>>>
    BY <1>4 DEF SysReferences
  <2>2. Join(SysRows(v, d), <<"object_id", "index_id">>, SysRows(w, e), <<"object_id", "index_id">>)
    BY <1>4, IndexColumnsOfIndexes, SysRowsAre, SameRows
  <2> QED
    BY <2>1, <2>2, JoinOf
<1>5. CASE v = "index_columns" /\ w = "columns"
  <2>1. p = <<<<"object_id", "column_id">>, <<"object_id", "column_id">>>>
    BY <1>5 DEF SysReferences
  <2>2. Join(SysRows(v, d), <<"object_id", "column_id">>, SysRows(w, e), <<"object_id", "column_id">>)
    BY <1>5, IndexColumnsOfColumns, SysRowsAre, SameRows
  <2> QED
    BY <2>1, <2>2, JoinOf
<1>6. CASE v = "key_constraints" /\ w = "indexes"
  <2>1. p = <<<<"parent_object_id", "unique_index_id">>, <<"object_id", "index_id">>>>
    BY <1>6 DEF SysReferences
  <2>2. Join(SysRows(v, d), <<"parent_object_id", "unique_index_id">>, SysRows(w, e), <<"object_id", "index_id">>)
    BY <1>6, KeyConstraintsOfIndexes, SysRowsAre, SameRows
  <2> QED
    BY <2>1, <2>2, JoinOf
<1>7. CASE v = "foreign_key_columns" /\ w = "columns"
  <2>1. p = <<<<"parent_object_id", "parent_column_id">>, <<"object_id", "column_id">>>>
    BY <1>7 DEF SysReferences
  <2>2. Join(SysRows(v, d), <<"parent_object_id", "parent_column_id">>, SysRows(w, e), <<"object_id", "column_id">>)
    BY <1>7, ForeignKeyColumnsOfColumns, SysRowsAre, SameRows
  <2> QED
    BY <2>1, <2>2, JoinOf
<1>8. CASE v = "foreign_keys" /\ w = "tables"
  <2>1. p = <<<<"referenced_object_id">>, <<"object_id">>>>
    BY <1>8 DEF SysReferences
  <2>2. Join(SysRows(v, d), <<"referenced_object_id">>, SysRows(w, e), <<"object_id">>)
    BY <1>8, ForeignKeysOfTables, SysRowsAre, SameRows
  <2> QED
    BY <2>1, <2>2, JoinOf
<1>9. CASE v = "default_constraints" /\ w = "columns"
  <2>1. p = <<<<"parent_object_id", "parent_column_id">>, <<"object_id", "column_id">>>>
    BY <1>9 DEF SysReferences
  <2>2. Join(SysRows(v, d), <<"parent_object_id", "parent_column_id">>, SysRows(w, e), <<"object_id", "column_id">>)
    BY <1>9, DefaultsOfColumns, SysRowsAre, SameRows
  <2> QED
    BY <2>1, <2>2, JoinOf
<1>10. CASE v = "sql_modules" /\ w = "objects"
  <2>1. p = <<<<"object_id">>, <<"object_id">>>>
    BY <1>10 DEF SysReferences
  <2>2. Join(SysRows(v, d), <<"object_id">>, SysRows(w, e), <<"object_id">>)
    BY <1>10, ModulesOfObjects, SysRowsAre, SameRows
  <2> QED
    BY <2>1, <2>2, JoinOf
<1>11. CASE v = "parameters" /\ w = "objects"
  <2>1. p = <<<<"object_id">>, <<"object_id">>>>
    BY <1>11 DEF SysReferences
  <2>2. Join(SysRows(v, d), <<"object_id">>, SysRows(w, e), <<"object_id">>)
    BY <1>11, ParametersOfObjects, SysRowsAre, SameRows
  <2> QED
    BY <2>1, <2>2, JoinOf
<1>12. CASE v = "sql_expression_dependencies" /\ w = "objects"
  <2>1. p = <<<<"referenced_id">>, <<"object_id">>>>
    BY <1>12 DEF SysReferences
  <2>2. Join(SysRows(v, d), <<"referenced_id">>, SysRows(w, e), <<"object_id">>)
    BY <1>12, DependenciesOfObjects, SysRowsAre, SameRows
  <2> QED
    BY <2>1, <2>2, JoinOf
<1>13. ASSUME SysReferences(v, w) = None PROVE FALSE
  <2>1. None[1] = <<>>
    BY DEF None
  <2> QED
    BY <1>13, <2>1
<1>14. \/ SysReferences(v, w) = None
      \/ (v = "columns" /\ w = "objects")
      \/ (v = "columns" /\ w = "types")
      \/ (v = "indexes" /\ w = "tables")
      \/ (v = "index_columns" /\ w = "indexes")
      \/ (v = "index_columns" /\ w = "columns")
      \/ (v = "key_constraints" /\ w = "indexes")
      \/ (v = "foreign_key_columns" /\ w = "columns")
      \/ (v = "foreign_keys" /\ w = "tables")
      \/ (v = "default_constraints" /\ w = "columns")
      \/ (v = "sql_modules" /\ w = "objects")
      \/ (v = "parameters" /\ w = "objects")
      \/ (v = "sql_expression_dependencies" /\ w = "objects")
  BY Zenon DEF SysReferences
<1> QED
  BY <1>1, <1>2, <1>3, <1>4, <1>5, <1>6, <1>7, <1>8, <1>9, <1>10, <1>11, <1>12, <1>13, <1>14

LEMMA InfoReferencesLead ==
  ASSUME NEW d, NEW e, Typed(d), WellKept(d), d.tables = e.tables, d.rts = e.rts,
         NEW v, NEW w, InfoReferences(v, w)[1] # <<>>
  PROVE  Join(InfoRows(v, d), InfoReferences(v, w)[1], InfoRows(w, e), InfoReferences(v, w)[2])
<1> DEFINE p == InfoReferences(v, w)
<1>1. CASE v = "KEY_COLUMN_USAGE" /\ w = "TABLE_CONSTRAINTS"
  <2>1. p = <<<<"CONSTRAINT_NAME">>, <<"CONSTRAINT_NAME">>>>
    BY <1>1 DEF InfoReferences
  <2>2. Join(InfoRows(v, d), <<"CONSTRAINT_NAME">>, InfoRows(w, e), <<"CONSTRAINT_NAME">>)
    BY <1>1, KeyUsageOfConstraints, InfoRowsAre, SameRows
  <2> QED
    BY <2>1, <2>2, JoinOf
<1>2. CASE v = "REFERENTIAL_CONSTRAINTS" /\ w = "TABLE_CONSTRAINTS"
  <2>1. p = <<<<"UNIQUE_CONSTRAINT_NAME">>, <<"CONSTRAINT_NAME">>>>
    BY <1>2 DEF InfoReferences
  <2>2. Join(InfoRows(v, d), <<"UNIQUE_CONSTRAINT_NAME">>, InfoRows(w, e), <<"CONSTRAINT_NAME">>)
    BY <1>2, ReferentialOfConstraints, InfoRowsAre, SameRows
  <2> QED
    BY <2>1, <2>2, JoinOf
<1>3. CASE v = "VIEW_COLUMN_USAGE" /\ w = "COLUMNS"
  <2>1. p = <<<<"TABLE_NAME", "COLUMN_NAME">>, <<"TABLE_NAME", "COLUMN_NAME">>>>
    BY <1>3 DEF InfoReferences
  <2>2. Join(InfoRows(v, d), <<"TABLE_NAME", "COLUMN_NAME">>, InfoRows(w, e), <<"TABLE_NAME", "COLUMN_NAME">>)
    BY <1>3, ViewColumnsOfColumns, InfoRowsAre, SameRows
  <2> QED
    BY <2>1, <2>2, JoinOf
<1>4. ASSUME InfoReferences(v, w) = None PROVE FALSE
  <2>1. None[1] = <<>>
    BY DEF None
  <2> QED
    BY <1>4, <2>1
<1>5. \/ InfoReferences(v, w) = None
      \/ (v = "KEY_COLUMN_USAGE" /\ w = "TABLE_CONSTRAINTS")
      \/ (v = "REFERENTIAL_CONSTRAINTS" /\ w = "TABLE_CONSTRAINTS")
      \/ (v = "VIEW_COLUMN_USAGE" /\ w = "COLUMNS")
  BY Zenon DEF InfoReferences
<1> QED
  BY <1>1, <1>2, <1>3, <1>4, <1>5

(* a reference between two views leads to a row, whichever the views are   *)
LEMMA ReferencesLead ==
  ASSUME NEW d, NEW e, Typed(d), WellKept(d), d.tables = e.tables, d.rts = e.rts,
         NEW x, NEW y, References(x, y)[1] # <<>>
  PROVE  Join(Rows(x, d), References(x, y)[1], Rows(y, e), References(x, y)[2])
<1>1. CASE x.by = "sys" /\ y.by = "sys"
  <2>1. References(x, y) = SysReferences(x.what, y.what)
    BY <1>1 DEF References
  <2>2. Rows(x, d) = SysRows(x.what, d) /\ Rows(y, e) = SysRows(y.what, e)
    BY <1>1 DEF Rows
  <2> QED
    BY <2>1, <2>2, SysReferencesLead
<1>2. CASE x.by = "info" /\ y.by = "info"
  <2>1. References(x, y) = InfoReferences(x.what, y.what)
    BY <1>2 DEF References
  <2>2. Rows(x, d) = InfoRows(x.what, d) /\ Rows(y, e) = InfoRows(y.what, e)
    BY <1>2 DEF Rows
  <2> QED
    BY <2>1, <2>2, InfoReferencesLead
<1>3. CASE ~(x.by = "sys" /\ y.by = "sys") /\ ~(x.by = "info" /\ y.by = "info")
  <2>1. References(x, y) = None
    BY <1>3 DEF References
  <2>2. None[1] = <<>>
    BY DEF None
  <2> QED
    BY <2>1, <2>2
<1> QED
  BY <1>1, <1>2, <1>3

(* Each of the fifteen references of SysReferences and InfoReferences that *)
(* a row keeps leads to a row of the other view (ReferencesJoin): the two  *)
(* answers of one query are of one description, and its rows agree. The    *)
(* ids of foreign keys, which do not, are not among them.                  *)
THEOREM ReferencesJoinCorrect == CacheSpec => []ReferencesJoin
<1>1. Init => CacheInv
  BY CacheInvInit
<1>2. CacheInv /\ [Next]_vars => CacheInv'
  BY CacheInvStep
<1>3. CacheInv => ReferencesJoin
  <2> SUFFICES ASSUME CacheInv, plan.cached, NEW a \in Told, NEW b \in Told, a.req.schema = b.req.schema,
                      References(a.req.of, b.req.of)[1] # <<>>, WellKept(Description(a))
               PROVE  Join(Rows(a.req.of, Description(a)), References(a.req.of, b.req.of)[1],
                           Rows(b.req.of, Description(b)), References(a.req.of, b.req.of)[2])
    BY DEF ReferencesJoin
  <2>1. OneFreshCatalogue /\ TypeOK
    BY CacheInvFresh DEF CacheInv
  <2>2. Typed(Description(a))
    <3>1. a \in Answers
      BY <2>1 DEF TypeOK, Told
    <3> QED
      BY <3>1, DescriptionType
  <2>3. a.req.of.by \in {"sys", "info"} /\ b.req.of.by \in {"sys", "info"}
    <3>1. References(a.req.of, b.req.of) # None
      <4>1. None[1] = <<>>
        BY DEF None
      <4> QED
        BY <4>1
    <3> QED
      BY <3>1 DEF References
  <2>4. Description(a).tables = Description(b).tables /\ Description(a).rts = Description(b).rts
    BY <2>1, <2>3, OneDescription
  <2> QED
    BY <2>2, <2>4, ReferencesLead
<1> QED
  BY <1>1, <1>2, <1>3, PTL DEF CacheSpec

(***************************************************************************)
(* What the reporters say of one object                                    *)
(***************************************************************************)
(* no other object has its id, nor its name in another case                *)
Single(d, o) ==
  \A u \in (Tables(d) \cup ToSet(d.rts)) \ {o} : ObjectId(u.name) # ObjectId(o.name) /\ ~EqualFold(u.name, o.name)

LEMMA TablesNotRoutines ==
  ASSUME NEW t \in TableDefs, NEW r \in RoutineDefs
  PROVE  t # r
<1>1. DOMAIN t = {"name", "catalog", "columns", "key", "fks", "indexes", "checks"}
  BY DEF TableDefs
<1>2. DOMAIN r = {"name", "kind", "params", "refs", "idents", "on"}
  BY DEF RoutineDefs
<1>3. "kind" \notin {"name", "catalog", "columns", "key", "fks", "indexes", "checks"}
  OBVIOUS
<1> QED
  BY <1>1, <1>2, <1>3

LEMMA LastIs ==
  ASSUME NEW S, NEW s \in Seq(S), NEW at, at \subseteq DOMAIN s, at # {}
  PROVE  \E i \in at : LastOf(s, at) = {s[i]}
<1>1. Len(s) \in Nat /\ at \subseteq 1..Len(s)
  OBVIOUS
<1>2. PICK i \in at : \A k \in at : k <= i
  BY <1>1, GreatestPlace
<1>3. {j \in at : \A k \in at : k <= j} = {i}
  BY <1>1, <1>2
<1> QED
  BY <1>2, <1>3 DEF LastOf

LEMMA OfIdIs ==
  ASSUME NEW S, NEW s \in Seq(S), NEW o \in ToSet(s), \A u \in ToSet(s) : ObjectId(u.name) = ObjectId(o.name) => u = o
  PROVE  OfId(s, ObjectId(o.name)) = {o}
<1> DEFINE at == {i \in DOMAIN s : ObjectId(s[i].name) = ObjectId(o.name)}
<1>1. at # {} /\ at \subseteq DOMAIN s /\ \A i \in at : s[i] = o
  BY DEF ToSet
<1>2. OfId(s, ObjectId(o.name)) = LastOf(s, at)
  BY DEF OfId
<1> HIDE DEF at
<1>3. PICK i \in at : LastOf(s, at) = {s[i]}
  BY <1>1, LastIs
<1> QED
  BY <1>1, <1>2, <1>3

LEMMA OfIdNone ==
  ASSUME NEW s, NEW id, \A u \in ToSet(s) : ObjectId(u.name) # id
  PROVE  OfId(s, id) = {}
  BY DEF OfId, LastOf, ToSet

LEMMA SingleIs ==
  ASSUME NEW d, Typed(d), NEW t \in Tables(d), Single(d, t)
  PROVE  /\ \A u \in Tables(d) : /\ ObjectId(u.name) = ObjectId(t.name) => u = t
                                 /\ EqualFold(u.name, t.name) => u = t
                                 /\ u.name = t.name => u = t
         /\ \A r \in ToSet(d.rts) : ObjectId(r.name) # ObjectId(t.name) /\ ~EqualFold(r.name, t.name)
<1>1. \A r \in ToSet(d.rts) : r # t
  BY TypedIs, TablesNotRoutines
<1>2. \A u \in Tables(d) \cup ToSet(d.rts) : u # t => ObjectId(u.name) # ObjectId(t.name) /\ ~EqualFold(u.name, t.name)
  BY DEF Single
<1>3. \A u : u.name = t.name => EqualFold(u.name, t.name)
  BY DEF EqualFold
<1> QED
  BY <1>1, <1>2, <1>3

LEMMA SingleFound ==
  ASSUME NEW d, Typed(d), NEW t \in Tables(d), Single(d, t)
  PROVE  /\ TableById(d, ObjectId(t.name)) = {t}
         /\ OfId(d.rts, ObjectId(t.name)) = {}
         /\ Named(ToSet(d.rts), t.name) = {}
         /\ t.name # <<>> => FindTable(d, t.name) = {t}
<1>1. TableById(d, ObjectId(t.name)) = {t}
  <2>1. d.tables \in Seq(TableDefs) /\ t \in ToSet(d.tables)
    BY DEF Typed, Tables
  <2>2. \A u \in ToSet(d.tables) : ObjectId(u.name) = ObjectId(t.name) => u = t
    BY SingleIs DEF Tables
  <2>3. OfId(d.tables, ObjectId(t.name)) = {t}
    BY <2>1, <2>2, OfIdIs
  <2> QED
    BY <2>3 DEF TableById
<1>2. OfId(d.rts, ObjectId(t.name)) = {}
  BY SingleIs, OfIdNone
<1>3. Named(ToSet(d.rts), t.name) = {}
  BY SingleIs DEF Named
<1>4. ASSUME t.name # <<>> PROVE FindTable(d, t.name) = {t}
  <2> DEFINE at == {i \in DOMAIN d.tables : EqualFold(d.tables[i].name, t.name)}
  <2>1. at \subseteq 1..Len(d.tables) /\ Len(d.tables) \in Nat
    BY TypedIs
  <2>2. PICK i \in DOMAIN d.tables : d.tables[i] = t
    BY DEF Tables, ToSet
  <2>3. i \in at
    BY <2>2 DEF EqualFold
  <2>4. at \subseteq Nat /\ at # {}
    BY <2>1, <2>3
  <2> HIDE DEF at
  <2>5. PICK j \in at : \A k \in at : j <= k
    BY <2>4, LeastNumber
  <2>6. j \in DOMAIN d.tables /\ d.tables[j] \in Tables(d) /\ EqualFold(d.tables[j].name, t.name)
    BY <2>1, <2>5, TypedIs DEF at
  <2>7. d.tables[j] = t
    BY <2>6, SingleIs
  <2>8. \A k \in 1..(j - 1) : ~EqualFold(d.tables[k].name, t.name)
    <3>1. \A k \in 1..(j - 1) : k \in DOMAIN d.tables /\ ~(j <= k)
      BY <2>1, <2>5, TypedIs
    <3> QED
      BY <2>5, <3>1 DEF at
  <2>9. t \in FindTable(d, t.name)
    BY <1>4, <2>6, <2>7, <2>8 DEF FindTable
  <2>10. FindTable(d, t.name) \subseteq {t}
    BY SingleIs DEF FindTable
  <2> QED
    BY <2>9, <2>10
<1> QED
  BY <1>1, <1>2, <1>3, <1>4

LEMMA SingleRoutine ==
  ASSUME NEW d, Typed(d), NEW r \in ToSet(d.rts), Single(d, r), r.name # <<>>
  PROVE  /\ OfId(d.rts, ObjectId(r.name)) = {r}
         /\ Named(ToSet(d.rts), r.name) = {r}
         /\ \A u \in ToSet(d.rts) : /\ ObjectId(u.name) = ObjectId(r.name) => u = r
                                    /\ EqualFold(u.name, r.name) => u = r
                                    /\ u.name = r.name => u = r
<1>1. \A u \in ToSet(d.rts) : u # r => ObjectId(u.name) # ObjectId(r.name) /\ ~EqualFold(u.name, r.name)
  BY DEF Single
<1>2. \A u : u.name = r.name => EqualFold(u.name, r.name)
  BY DEF EqualFold
<1>3. OfId(d.rts, ObjectId(r.name)) = {r}
  BY <1>1, OfIdIs DEF Typed
<1>4. Named(ToSet(d.rts), r.name) = {r}
  BY <1>1, <1>2 DEF Named
<1> QED
  BY <1>1, <1>2, <1>3, <1>4

(* a column by its name and by its place                                   *)
LEMMA PlaceIs ==
  ASSUME NEW t \in TableDefs, WellNamed(t), NEW i \in DOMAIN t.columns
  PROVE  ColId(t, t.columns[i].name) = i
<1> DEFINE c == t.columns[i].name
<1>1. HasColumn(t, c)
  BY DEF HasColumn
<1>2. ColId(t, c) \in DOMAIN t.columns /\ Lc(t.columns[ColId(t, c)].name) = Lc(c)
  <2> HIDE DEF c
  <2> QED
    BY <1>1, ColIdIs
<1>3. \A k, l \in DOMAIN t.columns : Lc(t.columns[k].name) = Lc(t.columns[l].name) => k = l
  BY DEF WellNamed
<1> QED
  BY <1>2, <1>3

LEMMA PlaceOf ==
  ASSUME NEW t \in TableDefs, WellNamed(t), NEW c \in {x.name : x \in ToSet(t.columns)}
  PROVE  ColId(t, c) \in DOMAIN t.columns /\ t.columns[ColId(t, c)].name = c
<1>1. PICK i \in DOMAIN t.columns : t.columns[i].name = c
  BY DEF ToSet
<1> QED
  BY <1>1, PlaceIs

LEMMA PlacesAre ==
  ASSUME NEW t \in TableDefs
  PROVE  DOMAIN t.columns \subseteq Nat \ {0}
<1> DEFINE cs == t.columns
<1>1. cs \in Seq(ColumnDefs)
  BY DEF TableDefs
<1> HIDE DEF cs
<1>2. DOMAIN cs \subseteq Nat \ {0}
  BY <1>1
<1> QED
  BY <1>2 DEF cs

(* COL_NAME of a table there is one of                                     *)
LEMMA ColNameIs ==
  ASSUME NEW d, Typed(d), NEW t \in Tables(d), Single(d, t)
  PROVE  \A i : ColName(d, ObjectId(t.name), i) = {t.columns[j].name : j \in {i} \cap DOMAIN t.columns}
<1>1. TableById(d, ObjectId(t.name)) = {t}
  BY SingleFound
<1> QED
  BY <1>1 DEF ColName

(* and of the column a name means, that name                               *)
LEMMA ColNameOf ==
  ASSUME NEW d, Typed(d), NEW t \in Tables(d), Single(d, t), WellNamed(t),
         NEW c \in {x.name : x \in ToSet(t.columns)}
  PROVE  ColName(d, ObjectId(t.name), ColId(t, c)) = {c}
<1>1. t \in TableDefs
  BY TypedIs
<1>2. ColId(t, c) \in DOMAIN t.columns /\ t.columns[ColId(t, c)].name = c
  BY <1>1, PlaceOf
<1> DEFINE i == ColId(t, c)
<1> HIDE DEF i
<1>3. ColName(d, ObjectId(t.name), i) = {t.columns[j].name : j \in {i} \cap DOMAIN t.columns}
  BY ColNameIs
<1>4. ColName(d, ObjectId(t.name), i) = {c}
  BY <1>2, <1>3 DEF i
<1> QED
  BY <1>4 DEF i

(* ---- its columns ---- *)
LEMMA PickSame ==
  ASSUME NEW A, NEW B, NEW cs,
         \A r \in A : \E s \in B : \A c \in cs : r[c] = s[c],
         \A s \in B : \E r \in A : \A c \in cs : r[c] = s[c]
  PROVE  Pick(A, cs) = Pick(B, cs)
<1> DEFINE f(r) == [c \in cs |-> r[c]]
<1>1. ASSUME NEW r, NEW s, \A c \in cs : r[c] = s[c] PROVE f(r) = f(s)
  BY <1>1
<1>2. Pick(A, cs) = {f(r) : r \in A} /\ Pick(B, cs) = {f(r) : r \in B}
  BY DEF Pick
<1> HIDE DEF f
<1>3. \A r \in A : \E s \in B : f(r) = f(s)
  BY <1>1
<1>4. \A s \in B : \E r \in A : f(r) = f(s)
  BY <1>1
<1> QED
  BY <1>2, <1>3, <1>4

(* what sp_columns and INFORMATION_SCHEMA.COLUMNS say of the table's columns *)
LEMMA ColumnRowsAre ==
  ASSUME NEW d, Typed(d), NEW t \in Tables(d), Single(d, t), ~IsSystemDb(Current), NEW P, NEW I,
         P = SpColumns(d, Current, t.name, <<>>), I = OfTable(InfoColumnsRows(d), t.name)
  PROVE  /\ \A r \in P : \E s \in I :
              /\ r.COLUMN_NAME = s.COLUMN_NAME /\ r.ORDINAL_POSITION = s.ORDINAL_POSITION
              /\ r.IS_NULLABLE = s.IS_NULLABLE /\ r.TYPE_NAME = s.DATA_TYPE
         /\ \A s \in I : \E r \in P :
              /\ r.COLUMN_NAME = s.COLUMN_NAME /\ r.ORDINAL_POSITION = s.ORDINAL_POSITION
              /\ r.IS_NULLABLE = s.IS_NULLABLE /\ r.TYPE_NAME = s.DATA_TYPE
<1> DEFINE X    == {x \in Columns(d) : x.t = t}
           f(x) == [TABLE_QUALIFIER |-> CatOf(x.t, Current), TABLE_NAME |-> x.t.name, COLUMN_NAME |-> x.c.name,
                    DATA_TYPE |-> OdbcType(x.c.type), TYPE_NAME |-> TypeName(x.c.type),
                    PRECISION |-> TypePrecision(x.c.type), LENGTH |-> TypeLength(x.c.type),
                    SCALE |-> NumScale(x.c.type), CHAR_OCTET_LENGTH |-> CharOctetLen(x.c.type),
                    ORDINAL_POSITION |-> x.i, IS_NULLABLE |-> x.c.type.null]
           g(x) == [TABLE_NAME |-> x.t.name, COLUMN_NAME |-> x.c.name, ORDINAL_POSITION |-> x.i,
                    IS_NULLABLE |-> x.c.type.null, DATA_TYPE |-> TypeName(x.c.type),
                    CHARACTER_MAXIMUM_LENGTH |-> CharLen(x.c.type), NUMERIC_PRECISION |-> NumPrec(x.c.type),
                    NUMERIC_SCALE |-> NumScale(x.c.type)]
<1>1. \A x \in Columns(d) : x.t \in Tables(d)
  BY DEF Columns
<1>2. \A x \in Columns(d) : /\ EqualFold(x.t.name, t.name) <=> x.t = t
                            /\ x.t.name = t.name <=> x.t = t
  <2>1. EqualFold(t.name, t.name)
    BY DEF EqualFold
  <2> QED
    BY <1>1, <2>1, SingleIs
<1>3. P = {f(x) : x \in {y \in Columns(d) : EqualFold(y.t.name, t.name)}}
  <2>1. \A x : MatchLike(<<x.c.name>>, <<>>)
    BY DEF MatchLike
  <2> QED
    BY <2>1 DEF SpColumns
<1>4. I = {r \in {g(x) : x \in Columns(d)} : r.TABLE_NAME = t.name}
  BY DEF OfTable, InfoColumnsRows
<1>5. P = {f(x) : x \in X}
  <2> HIDE DEF f
  <2> QED
    BY <1>2, <1>3
<1>6. \A x : g(x).TABLE_NAME = x.t.name
  OBVIOUS
<1>7. I = {g(x) : x \in X}
  <2> HIDE DEF g
  <2> QED
    BY <1>2, <1>4, <1>6
<1>8. \A x : /\ f(x).COLUMN_NAME = g(x).COLUMN_NAME /\ f(x).ORDINAL_POSITION = g(x).ORDINAL_POSITION
             /\ f(x).IS_NULLABLE = g(x).IS_NULLABLE /\ f(x).TYPE_NAME = g(x).DATA_TYPE
  OBVIOUS
<1> HIDE DEF f, g, X
<1> QED
  BY <1>5, <1>7, <1>8

LEMMA ColumnsReportedAlike ==
  ASSUME NEW d, Typed(d), NEW t \in Tables(d), Single(d, t), WellNamed(t), ~IsSystemDb(Current)
  PROVE  ColumnsAlike(d, t)
<1> DEFINE n  == t.name
           id == ObjectId(n)
           P  == SpColumns(d, Current, n, <<>>)
           I  == OfTable(InfoColumnsRows(d), n)
           cs == {"COLUMN_NAME", "ORDINAL_POSITION", "IS_NULLABLE"}
<1>1. /\ \A r \in P : \E s \in I :
           /\ r.COLUMN_NAME = s.COLUMN_NAME /\ r.ORDINAL_POSITION = s.ORDINAL_POSITION
           /\ r.IS_NULLABLE = s.IS_NULLABLE /\ r.TYPE_NAME = s.DATA_TYPE
      /\ \A s \in I : \E r \in P :
           /\ r.COLUMN_NAME = s.COLUMN_NAME /\ r.ORDINAL_POSITION = s.ORDINAL_POSITION
           /\ r.IS_NULLABLE = s.IS_NULLABLE /\ r.TYPE_NAME = s.DATA_TYPE
  BY ColumnRowsAre
<1>2. Pick(P, cs) = Pick(I, cs)
  <2> HIDE DEF P, I
  <2>1. /\ \A r \in P : \E s \in I : \A c \in cs : r[c] = s[c]
        /\ \A s \in I : \E r \in P : \A c \in cs : r[c] = s[c]
    BY <1>1
  <2> HIDE DEF cs
  <2> QED
    BY <2>1, PickSame
<1>3. {<<r.COLUMN_NAME, r.TYPE_NAME>> : r \in P} = {<<r.COLUMN_NAME, r.DATA_TYPE>> : r \in I}
  <2> HIDE DEF P, I
  <2> QED
    BY <1>1
<1>4. ASSUME NEW r \in ColumnsRows(d), r.object_id = id
      PROVE  /\ ColName(d, id, r.column_id) = {r.name}
             /\ ColumnProperty(d, id, r.name, "AllowsNull") = {r.is_nullable}
  <2>1. PICK x \in Columns(d) : /\ r.object_id = ObjectId(x.t.name) /\ r.name = x.c.name
                                /\ r.column_id = x.i /\ r.is_nullable = x.c.type.null
    BY DEF ColumnsRows
  <2>2. x.t \in Tables(d) /\ x.i \in DOMAIN x.t.columns /\ x.c = x.t.columns[x.i]
    BY DEF Columns
  <2>3. x.t = t
    <3>1. ObjectId(x.t.name) = ObjectId(t.name)
      BY <1>4, <2>1
    <3>2. \A u \in Tables(d) : ObjectId(u.name) = ObjectId(t.name) => u = t
      BY SingleIs
    <3> QED
      BY <2>2, <3>1, <3>2
  <2> DEFINE i == x.i
             c == t.columns[i].name
  <2>4. i \in DOMAIN t.columns /\ i \in Nat \ {0} /\ r.name = c /\ r.column_id = i
        /\ r.is_nullable = t.columns[i].type.null
    BY <2>1, <2>2, <2>3, PlacesAre, TypedIs
  <2> HIDE DEF i
  <2>5. ColName(d, id, i) = {t.columns[j].name : j \in {i} \cap DOMAIN t.columns}
    BY ColNameIs
  <2>6. ColId(t, c) = i
    BY <2>4, PlaceIs, TypedIs
  <2>7. TableById(d, id) = {t}
    BY SingleFound
  <2>8. ColumnProperty(d, id, c, "AllowsNull") = {t.columns[ColId(t, c)].type.null}
    <3> HIDE DEF c
    <3>1. ColId(t, c) > 0
      BY <2>4, <2>6
    <3> QED
      BY <2>7, <3>1 DEF ColumnProperty
  <2> QED
    BY <2>4, <2>5, <2>6, <2>8
<1> QED
  BY <1>2, <1>3, <1>4 DEF ColumnsAlike

(* ---- its key ---- *)
(* the name of a key is not that of a foreign key                          *)
LEMMA PkIsNotFk ==
  ASSUME NEW a \in Name, NEW b \in Name, NEW c \in Name
  PROVE  PkName(a) # <<"FK">> \o b \o c
<1> DEFINE pk == "PK"
           fk == "FK"
           S  == STRING \cup {pk, fk}
           q  == <<fk>> \o b
<1>1. pk # fk
  OBVIOUS
<1>2. a \in Seq(S) /\ b \in Seq(S) /\ c \in Seq(S) /\ pk \in S /\ fk \in S
  BY DEF Name
<1> HIDE DEF pk, fk, S
<1>3. q \in Seq(S) /\ Len(q) \in Nat \ {0} /\ q[1] = fk
  BY <1>2
<1> HIDE DEF q
<1>4. (q \o c)[1] = fk
  BY <1>2, <1>3
<1>5. (<<pk>> \o a)[1] = pk
  BY <1>2
<1>6. PkName(a) = <<pk>> \o a
  BY DEF PkName, pk
<1>7. <<"FK">> \o b \o c = q \o c
  BY DEF q, fk
<1> QED
  BY <1>1, <1>4, <1>5, <1>6, <1>7

LEMMA FkNames ==
  ASSUME NEW d, Typed(d), NEW x \in ToSet(ForeignKeys(d)), NEW n \in Name
  PROVE  FkName(x.t, x.fk) # PkName(n)
<1>1. x.t \in TableDefs /\ x.fk \in ToSet(x.t.fks)
  BY ForeignKeyIs, TypedIs
<1> DEFINE t  == x.t
           fs == t.fks
<1>2. t.name \in Name /\ fs \in Seq(KeyDefs)
  BY <1>1 DEF TableDefs
<1> HIDE DEF t, fs
<1>3. \A f \in ToSet(fs) : f \in KeyDefs
  BY <1>2 DEF ToSet
<1>4. x.fk \in KeyDefs
  BY <1>1, <1>3 DEF t, fs
<1>5. x.fk.ref \in Name
  BY <1>4 DEF KeyDefs
<1>6. FkName(x.t, x.fk) = <<"FK">> \o t.name \o x.fk.ref
  BY DEF FkName, t
<1> QED
  BY <1>2, <1>5, <1>6, PkIsNotFk

LEMMA NoPlaces ==
  ASSUME NEW S, NEW s \in Seq(S)
  PROVE  s = <<>> <=> DOMAIN s = {}
  OBVIOUS

LEMMA KeyIs ==
  ASSUME NEW t \in TableDefs
  PROVE  /\ t.name \in Name
         /\ t.key = <<>> <=> DOMAIN t.key = {}
<1>1. t.name \in Name /\ t.key \in Seq(STRING)
  BY DEF TableDefs
<1> DEFINE k == t.key
<1>2. k \in Seq(STRING)
  BY <1>1
<1> HIDE DEF k
<1>3. k = <<>> <=> DOMAIN k = {}
  BY <1>2
<1> QED
  BY <1>1, <1>3 DEF k

(* the columns of the key as sp_pkeys lists them                           *)
LEMMA PkeysAre ==
  ASSUME NEW d, Typed(d), NEW t \in Tables(d), Single(d, t), WellNamed(t)
  PROVE  /\ {<<r.COLUMN_NAME, r.KEY_SEQ>> : r \in SpPkeys(d, Current, t.name)} = {<<t.key[i], i>> : i \in DOMAIN t.key}
         /\ {r.COLUMN_NAME : r \in SpPkeys(d, Current, t.name)} = ToSet(t.key)
         /\ SpPkeys(d, Current, t.name) # {} <=> t.key # <<>>
<1> DEFINE f(i) == [TABLE_QUALIFIER |-> CatOf(t, Current), TABLE_NAME |-> t.name, COLUMN_NAME |-> t.key[i],
                    KEY_SEQ |-> i, PK_NAME |-> PkName(t.name)]
           P    == SpPkeys(d, Current, t.name)
<1>1. FindTable(d, t.name) = {t}
  BY SingleFound DEF WellNamed
<1>2. P = {f(i) : i \in DOMAIN t.key}
  BY <1>1 DEF SpPkeys
<1>3. \A i : f(i).COLUMN_NAME = t.key[i] /\ f(i).KEY_SEQ = i
  OBVIOUS
<1> HIDE DEF f, P
<1>4. {<<r.COLUMN_NAME, r.KEY_SEQ>> : r \in P} = {<<t.key[i], i>> : i \in DOMAIN t.key}
  BY <1>2, <1>3
<1>5. {r.COLUMN_NAME : r \in P} = ToSet(t.key)
  BY <1>2, <1>3 DEF ToSet
<1>6. P # {} <=> t.key # <<>>
  <2>1. t.key = <<>> <=> DOMAIN t.key = {}
    BY TypedIs, KeyIs
  <2> QED
    BY <1>2, <2>1
<1> QED
  BY <1>4, <1>5, <1>6 DEF P

(* and KEY_COLUMN_USAGE                                                    *)
LEMMA KeyUsageAre ==
  ASSUME NEW d, Typed(d), NEW t \in Tables(d), Single(d, t)
  PROVE  {<<r.COLUMN_NAME, r.ORDINAL_POSITION>> :
            r \in {x \in OfTable(KeyColumnUsageRows(d), t.name) : x.CONSTRAINT_NAME = PkName(t.name)}} =
         {<<t.key[i], i>> : i \in DOMAIN t.key}
<1> DEFINE n       == t.name
           K       == {x \in OfTable(KeyColumnUsageRows(d), n) : x.CONSTRAINT_NAME = PkName(n)}
           f(u, i) == [CONSTRAINT_NAME |-> PkName(u.name), TABLE_NAME |-> u.name, COLUMN_NAME |-> u.key[i],
                       ORDINAL_POSITION |-> i]
           g(x, i) == [CONSTRAINT_NAME |-> FkName(x.t, x.fk), TABLE_NAME |-> x.t.name,
                       COLUMN_NAME |-> x.fk.cols[i], ORDINAL_POSITION |-> i]
<1>1. KeyColumnUsageRows(d) = UNION ({{f(u, i) : i \in DOMAIN u.key} : u \in Tables(d)} \cup
                                     {{g(x, i) : i \in DOMAIN x.fk.cols} : x \in ToSet(ForeignKeys(d))})
  BY DEF KeyColumnUsageRows
<1>2. \A u, i : /\ f(u, i).CONSTRAINT_NAME = PkName(u.name) /\ f(u, i).TABLE_NAME = u.name
                /\ f(u, i).COLUMN_NAME = u.key[i] /\ f(u, i).ORDINAL_POSITION = i
  OBVIOUS
<1>3. \A x, i : g(x, i).CONSTRAINT_NAME = FkName(x.t, x.fk)
  OBVIOUS
<1>4. K = {x \in KeyColumnUsageRows(d) : x.TABLE_NAME = n /\ x.CONSTRAINT_NAME = PkName(n)}
  BY DEF OfTable
<1>5. n \in Name
  BY TypedIs, KeyIs
<1>6. \A u \in Tables(d) : u.name = n => u = t
  BY SingleIs
<1>7. \A x \in ToSet(ForeignKeys(d)) : FkName(x.t, x.fk) # PkName(n)
  BY <1>5, FkNames
<1> HIDE DEF f, g, K
<1>8. \A r \in K : \E i \in DOMAIN t.key : r = f(t, i)
  BY <1>1, <1>2, <1>3, <1>4, <1>6, <1>7
<1>9. \A i \in DOMAIN t.key : f(t, i) \in K
  <2> DEFINE A == {{f(u, i) : i \in DOMAIN u.key} : u \in Tables(d)}
             B == {{g(x, i) : i \in DOMAIN x.fk.cols} : x \in ToSet(ForeignKeys(d))}
             F == {f(t, i) : i \in DOMAIN t.key}
  <2>1. F \in A
    OBVIOUS
  <2>2. KeyColumnUsageRows(d) = UNION (A \cup B)
    BY <1>1
  <2>3. \A i \in DOMAIN t.key : f(t, i) \in F
    OBVIOUS
  <2> HIDE DEF A, B, F
  <2>4. \A i \in DOMAIN t.key : f(t, i) \in KeyColumnUsageRows(d)
    BY <2>1, <2>2, <2>3
  <2> QED
    BY <1>2, <1>4, <2>4
<1>10. {<<r.COLUMN_NAME, r.ORDINAL_POSITION>> : r \in K} = {<<t.key[i], i>> : i \in DOMAIN t.key}
  BY <1>2, <1>8, <1>9
<1> QED
  BY <1>10 DEF K

LEMMA KeysReportedAlike ==
  ASSUME NEW d, Typed(d), NEW t \in Tables(d), Single(d, t), WellNamed(t)
  PROVE  KeysAlike(d, t)
<1> DEFINE n == t.name
           P == SpPkeys(d, Current, n)
<1>1. {r.COLUMN_NAME : r \in SpSpecialColumns(d, n)} = ToSet(t.key)
  <2> DEFINE f(k, c) == [COLUMN_NAME |-> k, DATA_TYPE |-> OdbcType(c.type), TYPE_NAME |-> TypeName(c.type),
                         LENGTH |-> TypeLength(c.type)]
             R       == SpSpecialColumns(d, n)
  <2>1. FindTable(d, n) = {t}
    BY SingleFound DEF WellNamed
  <2>2. R = UNION {{f(k, c) : c \in ColDef(t, k)} : k \in ToSet(t.key)}
    BY <2>1 DEF SpSpecialColumns
  <2>3. \A k, c : f(k, c).COLUMN_NAME = k
    OBVIOUS
  <2>4. ASSUME NEW k \in ToSet(t.key) PROVE ColDef(t, k) # {}
    <3>1. k \in {c.name : c \in ToSet(t.columns)}
      BY DEF WellNamed
    <3>2. ColId(t, k) \in DOMAIN t.columns
      BY <3>1, TypedIs, PlaceOf
    <3>3. ColId(t, k) # 0
      BY <3>2, TypedIs, PlacesAre
    <3> QED
      BY <3>3 DEF ColDef
  <2> HIDE DEF f, R
  <2>5. {r.COLUMN_NAME : r \in R} = ToSet(t.key)
    BY <2>2, <2>3, <2>4
  <2> QED
    BY <2>5 DEF R
<1>2. /\ {<<r.COLUMN_NAME, r.KEY_SEQ>> : r \in P} = {<<t.key[i], i>> : i \in DOMAIN t.key}
      /\ {r.COLUMN_NAME : r \in P} = ToSet(t.key)
      /\ P # {} <=> t.key # <<>>
  BY PkeysAre
<1>3. ObjectProperty(d, ObjectId(n), "TableHasPrimaryKey") <=> t.key # <<>>
  <2>1. TableById(d, ObjectId(n)) = {t}
    BY SingleFound
  <2> QED
    BY <2>1 DEF ObjectProperty
<1>4. {<<r.COLUMN_NAME, r.ORDINAL_POSITION>> :
         r \in {x \in OfTable(KeyColumnUsageRows(d), n) : x.CONSTRAINT_NAME = PkName(n)}} =
      {<<t.key[i], i>> : i \in DOMAIN t.key}
  BY KeyUsageAre
<1> QED
  BY <1>1, <1>2, <1>3, <1>4 DEF KeysAlike

(* ---- its indexes ---- *)
LEMMA TableIndexIs ==
  ASSUME NEW t \in TableDefs, NEW ix \in ToSet(TableIndexes(t))
  PROVE  ix \in ToSet(t.indexes) \/ (t.key # <<>> /\ ix.cols = t.key)
<1> DEFINE made == [name |-> <<"PK">> \o t.name, cols |-> t.key, unique |-> TRUE, primary |-> TRUE,
                    clustered |-> TRUE]
           ixs  == t.indexes
           S    == IndexDefs \cup {made}
           all  == TableIndexes(t)
<1>1. ixs \in Seq(IndexDefs)
  BY DEF TableDefs
<1>2. made \in S /\ IndexDefs \subseteq S /\ made.cols = t.key
  OBVIOUS
<1>3. all = ixs \/ (t.key # <<>> /\ all = <<made>> \o ixs)
  BY DEF TableIndexes
<1>4. PICK i \in DOMAIN all : all[i] = ix
  BY DEF ToSet
<1> HIDE DEF made, ixs, S, all
<1>5. CASE all = ixs
  BY <1>4, <1>5 DEF ToSet, ixs
<1>6. CASE t.key # <<>> /\ all = <<made>> \o ixs
  <2>1. ixs \in Seq(S)
    BY <1>1, <1>2
  <2> DEFINE two == <<made>> \o ixs
  <2>2. /\ DOMAIN two = 1..(1 + Len(ixs)) /\ Len(ixs) \in Nat /\ DOMAIN ixs = 1..Len(ixs)
        /\ \A k \in DOMAIN two : IF k = 1 THEN two[k] = made ELSE two[k] = ixs[k - 1]
    BY <1>2, <2>1
  <2> HIDE DEF two
  <2>3. i \in DOMAIN two /\ two[i] = ix
    BY <1>4, <1>6 DEF two
  <2>4. CASE i = 1
    BY <1>2, <1>6, <2>2, <2>3, <2>4
  <2>5. CASE i # 1
    <3>1. ix = ixs[i - 1] /\ i - 1 \in DOMAIN ixs
      BY <2>2, <2>3, <2>5
    <3> QED
      BY <3>1 DEF ToSet, ixs
  <2> QED
    BY <2>4, <2>5
<1> QED
  BY <1>3, <1>5, <1>6

(* an index of a well named table has columns, and they are the table's    *)
LEMMA IndexNamed ==
  ASSUME NEW t \in TableDefs, WellNamed(t), NEW ix \in ToSet(TableIndexes(t))
  PROVE  /\ DOMAIN ix.cols # {}
         /\ \A k \in DOMAIN ix.cols : ix.cols[k] \in {c.name : c \in ToSet(t.columns)}
<1>1. CASE ix \in ToSet(t.indexes)
  <2> DEFINE ixs == t.indexes
             cs  == ix.cols
  <2>1. ixs \in Seq(IndexDefs)
    BY DEF TableDefs
  <2> HIDE DEF ixs
  <2>2. ix \in IndexDefs
    BY <1>1, <2>1 DEF ixs, ToSet
  <2>3. cs \in Seq(STRING)
    BY <2>2 DEF IndexDefs
  <2>4. cs # <<>> /\ ToSet(cs) \subseteq {c.name : c \in ToSet(t.columns)}
    BY <1>1 DEF WellNamed
  <2> HIDE DEF cs
  <2>5. DOMAIN cs # {}
    BY <2>3, <2>4, NoPlaces
  <2>6. \A k \in DOMAIN cs : cs[k] \in {c.name : c \in ToSet(t.columns)}
    BY <2>4 DEF ToSet
  <2> QED
    BY <2>5, <2>6 DEF cs
<1>2. CASE t.key # <<>> /\ ix.cols = t.key
  <2>1. DOMAIN t.key # {}
    BY <1>2, KeyIs
  <2>2. \A k \in DOMAIN t.key : t.key[k] \in {c.name : c \in ToSet(t.columns)}
    BY DEF WellNamed, ToSet
  <2> QED
    BY <1>2, <2>1, <2>2
<1> QED
  BY <1>1, <1>2, TableIndexIs

IndexPlaces(t) ==      \* the columns of the indexes, each with its place
  UNION {{<<ix.name, k, ix.cols[k]>> : k \in DOMAIN ix.cols} : ix \in ToSet(TableIndexes(t))}

(* as sp_statistics lists them                                             *)
LEMMA StatisticsAre ==
  ASSUME NEW d, Typed(d), NEW t \in Tables(d), Single(d, t), WellNamed(t)
  PROVE  /\ {<<r.INDEX_NAME, r.SEQ_IN_INDEX, r.COLUMN_NAME>> : r \in SpStatistics(d, Current, t.name)} = IndexPlaces(t)
         /\ {r.INDEX_NAME : r \in SpStatistics(d, Current, t.name)} = {ix.name : ix \in ToSet(TableIndexes(t))}
<1> DEFINE f(ix, k) == [TABLE_QUALIFIER |-> CatOf(t, Current), TABLE_NAME |-> t.name, NON_UNIQUE |-> ~ix.unique,
                        INDEX_NAME |-> ix.name, TYPE |-> IF ix.clustered THEN 1 ELSE 3, SEQ_IN_INDEX |-> k,
                        COLUMN_NAME |-> ix.cols[k]]
           P        == SpStatistics(d, Current, t.name)
           X        == ToSet(TableIndexes(t))
<1>1. FindTable(d, t.name) = {t}
  BY SingleFound DEF WellNamed
<1>2. P = UNION {{f(ix, k) : k \in DOMAIN ix.cols} : ix \in X}
  BY <1>1 DEF SpStatistics
<1>3. \A ix, k : f(ix, k).INDEX_NAME = ix.name /\ f(ix, k).SEQ_IN_INDEX = k /\ f(ix, k).COLUMN_NAME = ix.cols[k]
  OBVIOUS
<1>4. \A ix \in X : DOMAIN ix.cols # {}
  BY IndexNamed, TypedIs
<1>5. IndexPlaces(t) = UNION {{<<ix.name, k, ix.cols[k]>> : k \in DOMAIN ix.cols} : ix \in X}
  BY DEF IndexPlaces
<1> HIDE DEF f, P, X
<1>6. {<<r.INDEX_NAME, r.SEQ_IN_INDEX, r.COLUMN_NAME>> : r \in P} = IndexPlaces(t)
  BY <1>2, <1>3, <1>5
<1>7. {r.INDEX_NAME : r \in P} = {ix.name : ix \in X}
  BY <1>2, <1>3, <1>4
<1> QED
  BY <1>6, <1>7 DEF P, X

(* and as sys.indexes and sys.index_columns do, joined                     *)
LEMMA IndexRowsAre ==
  ASSUME NEW d, Typed(d), NEW t \in Tables(d), Single(d, t), NumberedAlike(t)
  PROVE  LET id  == ObjectId(t.name)
             ixs == TableIndexes(t)
         IN \A r \in IndexesRows(d) : r.object_id = id =>
              r.index_id = 0 \/ \E i \in DOMAIN ixs : r.index_id = i /\ r.name = ixs[i].name
<1> DEFINE ixs == TableIndexes(t)
           heap(u) == [object_id |-> ObjectId(u.name), name |-> NoId, index_id |-> 0, is_primary_key |-> FALSE]
           f(x) == [object_id |-> ObjectId(x.t.name), name |-> x.ix.name, index_id |-> IndexId(x.t, x.i),
                    is_primary_key |-> x.ix.primary]
           H == {u \in Tables(d) : \A i \in DOMAIN TableIndexes(u) : ~TableIndexes(u)[i].clustered}
<1>1. IndexesRows(d) = {heap(u) : u \in H} \cup {f(x) : x \in Indexes(d)}
  BY DEF IndexesRows
<1>2. /\ \A u : heap(u).index_id = 0
      /\ \A x : /\ f(x).object_id = ObjectId(x.t.name) /\ f(x).name = x.ix.name
                /\ f(x).index_id = IndexId(x.t, x.i)
  OBVIOUS
<1>3. ASSUME NEW x \in Indexes(d), ObjectId(x.t.name) = ObjectId(t.name)
      PROVE  x.i \in DOMAIN ixs /\ x.ix = ixs[x.i] /\ IndexId(x.t, x.i) = x.i
  <2>1. x.t \in Tables(d) /\ x.i \in DOMAIN TableIndexes(x.t) /\ x.ix = TableIndexes(x.t)[x.i]
    BY DEF Indexes
  <2>2. \A u \in Tables(d) : ObjectId(u.name) = ObjectId(t.name) => u = t
    BY SingleIs
  <2>3. x.t = t
    BY <1>3, <2>1, <2>2
  <2> QED
    BY <2>1, <2>3, TypedIs, IndexNumber
<1> HIDE DEF heap, f, H, ixs
<1>4. ASSUME NEW r \in IndexesRows(d), r.object_id = ObjectId(t.name)
      PROVE  r.index_id = 0 \/ \E i \in DOMAIN ixs : r.index_id = i /\ r.name = ixs[i].name
  <2>1. CASE \E u \in H : r = heap(u)
    BY <1>2, <2>1
  <2>2. CASE \E x \in Indexes(d) : r = f(x)
    <3>1. PICK x \in Indexes(d) : r = f(x)
      BY <2>2
    <3>2. ObjectId(x.t.name) = ObjectId(t.name)
      BY <1>2, <1>4, <3>1
    <3>3. x.i \in DOMAIN ixs /\ r.index_id = x.i /\ r.name = ixs[x.i].name
      BY <1>2, <1>3, <3>1, <3>2
    <3> QED
      BY <3>3
  <2> QED
    BY <1>1, <2>1, <2>2
<1> QED
  BY <1>4 DEF ixs

LEMMA IndexColumnRowsAre ==
  ASSUME NEW d, Typed(d), NEW t \in Tables(d), Single(d, t)
  PROVE  LET id  == ObjectId(t.name)
             ixs == TableIndexes(t)
         IN /\ \A r \in IndexColumnsRows(d) : r.object_id = id =>
                 \E i \in DOMAIN ixs : \E k \in DOMAIN ixs[i].cols :
                   r.index_id = i /\ r.key_ordinal = k /\ r.column_id = ColId(t, ixs[i].cols[k])
            /\ \A i \in DOMAIN ixs : \A k \in DOMAIN ixs[i].cols : \E r \in IndexColumnsRows(d) :
                 r.object_id = id /\ r.index_id = i /\ r.key_ordinal = k /\ r.column_id = ColId(t, ixs[i].cols[k])
<1> DEFINE ixs == TableIndexes(t)
           f(x, j) == [object_id |-> ObjectId(x.t.name), index_id |-> x.i, key_ordinal |-> j,
                       column_id |-> ColId(x.t, x.ix.cols[j])]
<1>1. IndexColumnsRows(d) = UNION {{f(x, j) : j \in DOMAIN x.ix.cols} : x \in Indexes(d)}
  BY DEF IndexColumnsRows
<1>2. \A x, j : /\ f(x, j).object_id = ObjectId(x.t.name) /\ f(x, j).index_id = x.i
                /\ f(x, j).key_ordinal = j /\ f(x, j).column_id = ColId(x.t, x.ix.cols[j])
  OBVIOUS
<1>3. ASSUME NEW x \in Indexes(d), ObjectId(x.t.name) = ObjectId(t.name)
      PROVE  x.t = t /\ x.i \in DOMAIN ixs /\ x.ix = ixs[x.i]
  <2>1. x.t \in Tables(d) /\ x.i \in DOMAIN TableIndexes(x.t) /\ x.ix = TableIndexes(x.t)[x.i]
    BY DEF Indexes
  <2>2. \A u \in Tables(d) : ObjectId(u.name) = ObjectId(t.name) => u = t
    BY SingleIs
  <2>3. x.t = t
    BY <1>3, <2>1, <2>2
  <2> QED
    BY <2>1, <2>3
<1>4. ASSUME NEW i \in DOMAIN ixs
      PROVE  \E x \in Indexes(d) : x.t = t /\ x.i = i /\ x.ix = ixs[i]
  <2> DEFINE x == [t |-> t, i |-> i, ix |-> ixs[i]]
  <2>1. x \in Indexes(d)
    BY DEF Indexes
  <2> QED
    BY <2>1
<1> HIDE DEF f, ixs
<1>5. ASSUME NEW r \in IndexColumnsRows(d), r.object_id = ObjectId(t.name)
      PROVE  \E i \in DOMAIN ixs : \E k \in DOMAIN ixs[i].cols :
               r.index_id = i /\ r.key_ordinal = k /\ r.column_id = ColId(t, ixs[i].cols[k])
  <2>1. PICK x \in Indexes(d) : \E j \in DOMAIN x.ix.cols : r = f(x, j)
    BY <1>1
  <2>2. PICK j \in DOMAIN x.ix.cols : r = f(x, j)
    BY <2>1
  <2>3. x.t = t /\ x.i \in DOMAIN ixs /\ x.ix = ixs[x.i]
    BY <1>2, <1>3, <1>5, <2>2
  <2> QED
    BY <1>2, <2>2, <2>3
<1>6. ASSUME NEW i \in DOMAIN ixs, NEW k \in DOMAIN ixs[i].cols
      PROVE  \E r \in IndexColumnsRows(d) :
               /\ r.object_id = ObjectId(t.name) /\ r.index_id = i /\ r.key_ordinal = k
               /\ r.column_id = ColId(t, ixs[i].cols[k])
  <2>1. PICK x \in Indexes(d) : x.t = t /\ x.i = i /\ x.ix = ixs[i]
    BY <1>4
  <2>2. f(x, k) \in IndexColumnsRows(d)
    BY <1>1, <2>1
  <2> QED
    BY <1>2, <2>1, <2>2
<1> QED
  BY <1>5, <1>6 DEF ixs

LEMMA JoinedIndexes ==
  ASSUME NEW d, Typed(d), NEW t \in Tables(d), Single(d, t), NumberedAlike(t), WellNamed(t)
  PROVE  LET id      == ObjectId(t.name)
             numbers == {<<r.index_id, r.name>> : r \in {x \in IndexesRows(d) : x.object_id = id}}
         IN UNION {{<<p[1][2], p[2].key_ordinal, c>> : c \in ColName(d, id, p[2].column_id)} :
                     p \in {q \in numbers \X IndexColumnsRows(d) : q[2].object_id = id /\ q[2].index_id = q[1][1]}} =
            IndexPlaces(t)
<1> DEFINE id      == ObjectId(t.name)
           ixs     == TableIndexes(t)
           numbers == {<<r.index_id, r.name>> : r \in {x \in IndexesRows(d) : x.object_id = id}}
           pairs   == {q \in numbers \X IndexColumnsRows(d) : q[2].object_id = id /\ q[2].index_id = q[1][1]}
           told(p) == {<<p[1][2], p[2].key_ordinal, c>> : c \in ColName(d, id, p[2].column_id)}
           all     == UNION {told(p) : p \in pairs}
<1>1. ASSUME NEW i \in DOMAIN ixs
      PROVE  i \in Nat \ {0} /\ ixs[i] \in ToSet(ixs)
             /\ \A k \in DOMAIN ixs[i].cols : ColName(d, id, ColId(t, ixs[i].cols[k])) = {ixs[i].cols[k]}
  <2>1. PICK n \in Nat : DOMAIN ixs = 1..n
    BY TableIndexesIs, TypedIs
  <2> DEFINE ix == ixs[i]
  <2>2. ix \in ToSet(ixs)
    BY DEF ToSet
  <2>3. i \in Nat \ {0}
    <3> HIDE DEF ixs
    <3> QED
      BY <2>1
  <2> HIDE DEF ix
  <2>4. \A k \in DOMAIN ix.cols : ix.cols[k] \in {c.name : c \in ToSet(t.columns)}
    BY <2>2, IndexNamed, TypedIs
  <2>5. \A k \in DOMAIN ix.cols : ColName(d, id, ColId(t, ix.cols[k])) = {ix.cols[k]}
    BY <2>4, ColNameOf
  <2> QED
    BY <2>2, <2>3, <2>5 DEF ix
<1>2. \A r \in IndexesRows(d) : r.object_id = id =>
        r.index_id = 0 \/ \E i \in DOMAIN ixs : r.index_id = i /\ r.name = ixs[i].name
  BY IndexRowsAre
<1>3. /\ \A r \in IndexColumnsRows(d) : r.object_id = id =>
           \E i \in DOMAIN ixs : \E k \in DOMAIN ixs[i].cols :
             r.index_id = i /\ r.key_ordinal = k /\ r.column_id = ColId(t, ixs[i].cols[k])
      /\ \A i \in DOMAIN ixs : \A k \in DOMAIN ixs[i].cols : \E r \in IndexColumnsRows(d) :
           r.object_id = id /\ r.index_id = i /\ r.key_ordinal = k /\ r.column_id = ColId(t, ixs[i].cols[k])
  BY IndexColumnRowsAre
<1>4. ASSUME NEW i \in DOMAIN ixs PROVE <<i, ixs[i].name>> \in numbers
  <2>1. PICK r \in IndexesRows(d) : r.object_id = id /\ r.index_id = i
    BY IndexRow, TypedIs
  <2>2. r.name = ixs[i].name
    BY <1>1, <1>2, <2>1
  <2> QED
    BY <2>1, <2>2
<1>5. \A m \in numbers : \/ m[1] = 0
                         \/ \E i \in DOMAIN ixs : m[1] = i /\ m[2] = ixs[i].name
  BY <1>2
<1>6. IndexPlaces(t) = UNION {{<<ix.name, k, ix.cols[k]>> : k \in DOMAIN ix.cols} : ix \in ToSet(ixs)}
  BY DEF IndexPlaces
<1> HIDE DEF id, ixs, numbers
<1>7. ASSUME NEW p \in pairs
      PROVE  \E i \in DOMAIN ixs : \E k \in DOMAIN ixs[i].cols : told(p) = {<<ixs[i].name, k, ixs[i].cols[k]>>}
  <2> DEFINE m == p[1]
             r == p[2]
  <2>1. m \in numbers /\ r \in IndexColumnsRows(d) /\ r.object_id = id /\ r.index_id = m[1]
    OBVIOUS
  <2> HIDE DEF m, r
  <2>2. PICK i \in DOMAIN ixs : \E k \in DOMAIN ixs[i].cols :
          r.index_id = i /\ r.key_ordinal = k /\ r.column_id = ColId(t, ixs[i].cols[k])
    BY <1>3, <2>1
  <2>3. PICK k \in DOMAIN ixs[i].cols :
          r.index_id = i /\ r.key_ordinal = k /\ r.column_id = ColId(t, ixs[i].cols[k])
    BY <2>2
  <2>4. m[2] = ixs[i].name
    BY <1>1, <1>5, <2>1, <2>3
  <2>5. ColName(d, id, r.column_id) = {ixs[i].cols[k]}
    BY <1>1, <2>3
  <2>6. told(p) = {<<m[2], r.key_ordinal, c>> : c \in ColName(d, id, r.column_id)}
    BY DEF m, r
  <2>7. told(p) = {<<ixs[i].name, k, ixs[i].cols[k]>>}
    <3> HIDE DEF told
    <3> QED
      BY <2>3, <2>4, <2>5, <2>6
  <2> QED
    BY <2>7
<1>8. ASSUME NEW i \in DOMAIN ixs, NEW k \in DOMAIN ixs[i].cols
      PROVE  <<ixs[i].name, k, ixs[i].cols[k]>> \in all
  <2>1. PICK r \in IndexColumnsRows(d) :
          r.object_id = id /\ r.index_id = i /\ r.key_ordinal = k /\ r.column_id = ColId(t, ixs[i].cols[k])
    BY <1>3
  <2> DEFINE p == <<<<i, ixs[i].name>>, r>>
  <2>2. p \in pairs
    BY <1>4, <2>1
  <2>3. told(p) = {<<ixs[i].name, k, c>> : c \in ColName(d, id, r.column_id)}
    BY <2>1
  <2>4. ColName(d, id, r.column_id) = {ixs[i].cols[k]}
    BY <1>1, <2>1
  <2> HIDE DEF p, told, pairs
  <2>5. <<ixs[i].name, k, ixs[i].cols[k]>> \in told(p)
    BY <2>3, <2>4
  <2> QED
    BY <2>2, <2>5
<1>9. all = IndexPlaces(t)
  <2> HIDE DEF told, pairs
  <2>1. ASSUME NEW y \in all PROVE y \in IndexPlaces(t)
    <3>1. PICK p \in pairs : y \in told(p)
      OBVIOUS
    <3>2. PICK i \in DOMAIN ixs : \E k \in DOMAIN ixs[i].cols : told(p) = {<<ixs[i].name, k, ixs[i].cols[k]>>}
      BY <1>7
    <3>3. PICK k \in DOMAIN ixs[i].cols : told(p) = {<<ixs[i].name, k, ixs[i].cols[k]>>}
      BY <3>2
    <3>4. y = <<ixs[i].name, k, ixs[i].cols[k]>>
      BY <3>1, <3>3
    <3> QED
      BY <1>1, <1>6, <3>4
  <2>2. ASSUME NEW y \in IndexPlaces(t) PROVE y \in all
    <3>1. PICK ix \in ToSet(ixs) : \E k \in DOMAIN ix.cols : y = <<ix.name, k, ix.cols[k]>>
      BY <1>6
    <3>2. PICK i \in DOMAIN ixs : ixs[i] = ix
      BY DEF ToSet
    <3> HIDE DEF all
    <3> QED
      BY <1>8, <3>1, <3>2
  <2> QED
    BY <2>1, <2>2
<1> QED
  BY <1>9 DEF id, numbers

LEMMA IndexesReportedAlike ==
  ASSUME NEW d, Typed(d), NEW t \in Tables(d), Single(d, t), NumberedAlike(t), WellNamed(t)
  PROVE  IndexesAlike(d, t)
<1>1. {r.index_name : r \in SpHelpindex(d, t.name)} = {ix.name : ix \in ToSet(TableIndexes(t))}
  <2> DEFINE f(ix) == [index_name |-> ix.name, index_description |-> IndexDesc(ix), index_keys |-> ix.cols]
             X     == ToSet(TableIndexes(t))
             R     == SpHelpindex(d, t.name)
  <2>1. FindTable(d, t.name) = {t}
    BY SingleFound DEF WellNamed
  <2>2. R = {f(ix) : ix \in X}
    BY <2>1 DEF SpHelpindex
  <2>3. \A ix : f(ix).index_name = ix.name
    OBVIOUS
  <2> HIDE DEF f, X, R
  <2>4. {r.index_name : r \in R} = {ix.name : ix \in X}
    BY <2>2, <2>3
  <2> QED
    BY <2>4 DEF X, R
<1> DEFINE n       == t.name
           id      == ObjectId(n)
           numbers == {<<r.index_id, r.name>> : r \in {x \in IndexesRows(d) : x.object_id = id}}
           S       == {<<r.INDEX_NAME, r.SEQ_IN_INDEX, r.COLUMN_NAME>> : r \in SpStatistics(d, Current, n)}
           J       == UNION {{<<p[1][2], p[2].key_ordinal, c>> : c \in ColName(d, id, p[2].column_id)} :
                        p \in {q \in numbers \X IndexColumnsRows(d) : q[2].object_id = id /\ q[2].index_id = q[1][1]}}
           H       == {r.index_name : r \in SpHelpindex(d, n)}
           N       == {r.INDEX_NAME : r \in SpStatistics(d, Current, n)}
<1>2. S = IndexPlaces(t) /\ N = {ix.name : ix \in ToSet(TableIndexes(t))}
  BY StatisticsAre
<1>3. J = IndexPlaces(t)
  BY JoinedIndexes
<1>4. IndexesAlike(d, t) <=> S = J /\ H = N
  BY DEF IndexesAlike
<1> HIDE DEF S, J, N
<1> QED
  BY <1>1, <1>2, <1>3, <1>4

(* ---- its constraints ---- *)
OwnKeys(d, t) == {x \in ToSet(ForeignKeys(d)) : x.t = t}

KeyColumns(d, t) == UNION {{x.fk.cols[k] : k \in DOMAIN x.fk.cols} : x \in OwnKeys(d, t)}

LEMMA FkeysAre ==
  ASSUME NEW d, Typed(d), NEW t \in Tables(d), Single(d, t), WellNamed(t)
  PROVE  {r.FKCOLUMN_NAME : r \in SpFkeys(d, <<>>, t.name)} = KeyColumns(d, t)
<1> DEFINE n     == t.name
           no    == ""
           to(x, k) == IF k <= Len(x.fk.refCols) THEN x.fk.refCols[k] ELSE no
           f(x, k)  == [PKTABLE_NAME |-> x.fk.ref, PKCOLUMN_NAME |-> to(x, k),
                        FKTABLE_NAME |-> x.t.name, FKCOLUMN_NAME |-> x.fk.cols[k], KEY_SEQ |-> k,
                        FK_NAME |-> FkName(x.t, x.fk), PK_NAME |-> PkName(x.fk.ref)]
           X     == {y \in ToSet(ForeignKeys(d)) : n = <<>> \/ EqualFold(y.t.name, n)}
                      \cap {y \in ToSet(ForeignKeys(d)) : <<>> = <<>> \/ EqualFold(y.fk.ref, <<>>)}
           R     == SpFkeys(d, <<>>, n)
<1>1. R = UNION {{f(x, k) : k \in DOMAIN x.fk.cols} : x \in X}
  BY Zenon DEF SpFkeys
<1> HIDE DEF no, to
<1>2. \A x, k : f(x, k).FKCOLUMN_NAME = x.fk.cols[k]
  OBVIOUS
<1>3. X = OwnKeys(d, t)
  <2>1. n # <<>> /\ EqualFold(n, n)
    BY DEF WellNamed, EqualFold
  <2>2. \A x \in ToSet(ForeignKeys(d)) : EqualFold(x.t.name, n) <=> x.t = t
    <3>1. \A x \in ToSet(ForeignKeys(d)) : x.t \in Tables(d)
      BY ForeignKeyIs
    <3>2. \A u \in Tables(d) : EqualFold(u.name, n) => u = t
      BY SingleIs
    <3> QED
      BY <2>1, <3>1, <3>2
  <2> QED
    BY <2>1, <2>2 DEF OwnKeys
<1> HIDE DEF f, X, R
<1>4. {r.FKCOLUMN_NAME : r \in R} = KeyColumns(d, t)
  BY <1>1, <1>2, <1>3 DEF KeyColumns
<1> QED
  BY <1>4 DEF R

LEMMA KeyColumnNamed ==
  ASSUME NEW d, Typed(d), NEW t \in Tables(d), WellNamed(t), NEW x \in OwnKeys(d, t), NEW k \in DOMAIN x.fk.cols
  PROVE  x.fk.cols[k] \in {c.name : c \in ToSet(t.columns)}
<1>1. x.fk \in ToSet(t.fks)
  BY ForeignKeyIs DEF OwnKeys
<1>2. ToSet(x.fk.cols) \subseteq {c.name : c \in ToSet(t.columns)}
  BY <1>1 DEF WellNamed
<1>3. x.fk.cols[k] \in ToSet(x.fk.cols)
  BY DEF ToSet
<1> QED
  BY <1>2, <1>3

LEMMA ForeignColumnsAre ==
  ASSUME NEW d, Typed(d), NEW t \in Tables(d), Single(d, t), WellNamed(t)
  PROVE  LET id == ObjectId(t.name)
         IN UNION {ColName(d, id, r.parent_column_id) :
                     r \in {x \in ForeignKeyColumnsRows(d) : x.parent_object_id = id}} = KeyColumns(d, t)
<1> DEFINE id   == ObjectId(t.name)
           told(r) == ColName(d, id, r.parent_column_id)
           R    == {x \in ForeignKeyColumnsRows(d) : x.parent_object_id = id}
           X    == ToSet(ForeignKeys(d))
           refCol(fk, k) == IF Referenced(d, fk.ref) = {} \/ k > Len(fk.refCols) THEN 0
                            ELSE ColId(CHOOSE u \in Referenced(d, fk.ref) : TRUE, fk.refCols[k])
           f(x, k) == [constraint_object_id |-> ObjectId(FkName(x.t, x.fk)), constraint_column_id |-> k,
                       parent_object_id |-> ObjectId(x.t.name), parent_column_id |-> ColId(x.t, x.fk.cols[k]),
                       referenced_object_id |-> IdOf(Referenced(d, x.fk.ref)),
                       referenced_column_id |-> refCol(x.fk, k)]
<1>1. ForeignKeyColumnsRows(d) = UNION {{f(x, k) : k \in DOMAIN x.fk.cols} : x \in X}
  BY DEF ForeignKeyColumnsRows
<1> HIDE DEF refCol
<1>2. \A x, k : /\ f(x, k).parent_object_id = ObjectId(x.t.name)
                /\ f(x, k).parent_column_id = ColId(x.t, x.fk.cols[k])
  OBVIOUS
<1>3. \A x \in X : ObjectId(x.t.name) = id <=> x \in OwnKeys(d, t)
  <2>1. \A x \in X : x.t \in Tables(d)
    BY ForeignKeyIs
  <2>2. \A u \in Tables(d) : ObjectId(u.name) = id => u = t
    BY SingleIs
  <2> QED
    BY <2>1, <2>2 DEF OwnKeys
<1>4. OwnKeys(d, t) \subseteq X /\ \A x \in OwnKeys(d, t) : x.t = t
  BY DEF OwnKeys
<1>5. ASSUME NEW x \in OwnKeys(d, t), NEW k \in DOMAIN x.fk.cols
      PROVE  ColName(d, id, ColId(t, x.fk.cols[k])) = {x.fk.cols[k]}
  BY KeyColumnNamed, ColNameOf
<1> HIDE DEF f, X, id
<1>6. ASSUME NEW r \in R
      PROVE  \E x \in OwnKeys(d, t) : \E k \in DOMAIN x.fk.cols : told(r) = {x.fk.cols[k]}
  <2>1. PICK x \in X : \E k \in DOMAIN x.fk.cols : r = f(x, k)
    BY <1>1
  <2>2. PICK k \in DOMAIN x.fk.cols : r = f(x, k)
    BY <2>1
  <2>3. x \in OwnKeys(d, t) /\ r.parent_column_id = ColId(t, x.fk.cols[k])
    BY <1>2, <1>3, <1>4, <2>2
  <2> QED
    BY <1>5, <2>3
<1>7. ASSUME NEW x \in OwnKeys(d, t), NEW k \in DOMAIN x.fk.cols
      PROVE  \E r \in R : told(r) = {x.fk.cols[k]}
  <2>1. f(x, k) \in R
    BY <1>1, <1>2, <1>3, <1>4
  <2>2. told(f(x, k)) = {x.fk.cols[k]}
    BY <1>2, <1>4, <1>5
  <2> QED
    BY <2>1, <2>2
<1> HIDE DEF R, told
<1>8. UNION {told(r) : r \in R} = KeyColumns(d, t)
  <2>1. KeyColumns(d, t) = UNION {{x.fk.cols[k] : k \in DOMAIN x.fk.cols} : x \in OwnKeys(d, t)}
    BY DEF KeyColumns
  <2>2. ASSUME NEW c \in UNION {told(r) : r \in R} PROVE c \in KeyColumns(d, t)
    <3>1. PICK r \in R : c \in told(r)
      OBVIOUS
    <3>2. PICK x \in OwnKeys(d, t) : \E k \in DOMAIN x.fk.cols : told(r) = {x.fk.cols[k]}
      BY <1>6
    <3> QED
      BY <2>1, <3>1, <3>2
  <2>3. ASSUME NEW c \in KeyColumns(d, t) PROVE c \in UNION {told(r) : r \in R}
    <3>1. PICK x \in OwnKeys(d, t) : \E k \in DOMAIN x.fk.cols : c = x.fk.cols[k]
      BY <2>1
    <3>2. PICK r \in R : told(r) = {c}
      BY <1>7, <3>1
    <3> QED
      BY <3>2
  <2> QED
    BY <2>2, <2>3
<1> QED
  BY <1>8 DEF R, told, id

LEMMA HelpconstraintIs ==
  ASSUME NEW d, Typed(d), NEW t \in Tables(d), Single(d, t), WellNamed(t)
  PROVE  {r.constraint_name : r \in {x \in SpHelpconstraint(d, t.name) : x.constraint_type \in {"PRIMARY KEY", "FOREIGN KEY"}}} =
         {PkName(t.name) : k \in {t.key} \ {<<>>}} \cup {FkName(t, fk) : fk \in ToSet(t.fks)}
<1> DEFINE pk == "PRIMARY KEY"
           fk == "FOREIGN KEY"
           ck == "CHECK"
           df == "DEFAULT"
           a    == [constraint_type |-> pk, constraint_name |-> PkName(t.name), keys |-> t.key]
           b(f) == [constraint_type |-> fk, constraint_name |-> FkName(t, f), keys |-> f.cols]
           c(k) == [constraint_type |-> ck, constraint_name |-> k.name, keys |-> <<>>]
           e(m) == [constraint_type |-> df, constraint_name |-> <<"DF">> \o t.name \o <<m.name>>, keys |-> <<m.name>>]
           D    == {m \in ToSet(t.columns) : m.default}
           P    == {a : x \in {t.key} \ {<<>>}}
           R    == SpHelpconstraint(d, t.name)
           K    == {pk, fk}
<1>1. FindTable(d, t.name) = {t}
  BY SingleFound DEF WellNamed
<1>2. R = UNION {{[constraint_type |-> "PRIMARY KEY", constraint_name |-> PkName(u.name), keys |-> u.key] :
                    x \in {u.key} \ {<<>>}} \cup
                 {[constraint_type |-> "FOREIGN KEY", constraint_name |-> FkName(u, f), keys |-> f.cols] :
                    f \in ToSet(u.fks)} \cup
                 {[constraint_type |-> "CHECK", constraint_name |-> k.name, keys |-> <<>>] : k \in ToSet(u.checks)} \cup
                 {[constraint_type |-> "DEFAULT", constraint_name |-> <<"DF">> \o u.name \o <<m.name>>, keys |-> <<m.name>>] :
                    m \in {m2 \in ToSet(u.columns) : m2.default}} : u \in FindTable(d, t.name)}
  BY Zenon DEF SpHelpconstraint
<1>3. R = P \cup {b(f) : f \in ToSet(t.fks)} \cup {c(k) : k \in ToSet(t.checks)} \cup {e(m) : m \in D}
  <2> DEFINE g(u) == {[constraint_type |-> "PRIMARY KEY", constraint_name |-> PkName(u.name), keys |-> u.key] :
                        x \in {u.key} \ {<<>>}} \cup
                     {[constraint_type |-> "FOREIGN KEY", constraint_name |-> FkName(u, f), keys |-> f.cols] :
                        f \in ToSet(u.fks)} \cup
                     {[constraint_type |-> "CHECK", constraint_name |-> k.name, keys |-> <<>>] : k \in ToSet(u.checks)} \cup
                     {[constraint_type |-> "DEFAULT", constraint_name |-> <<"DF">> \o u.name \o <<m.name>>, keys |-> <<m.name>>] :
                        m \in {m2 \in ToSet(u.columns) : m2.default}}
  <2>1. R = UNION {g(u) : u \in FindTable(d, t.name)}
    BY <1>2, Zenon
  <2>2. g(t) = P \cup {b(f) : f \in ToSet(t.fks)} \cup {c(k) : k \in ToSet(t.checks)} \cup {e(m) : m \in D}
    BY Zenon
  <2> HIDE DEF g, R
  <2>3. R = g(t)
    BY <1>1, <2>1
  <2> QED
    BY <2>2, <2>3, Zenon
<1>4. pk # ck /\ pk # df /\ fk # ck /\ fk # df
  BY Zenon
<1> HIDE DEF pk, fk, ck, df
<1>5. /\ a.constraint_type = pk /\ a.constraint_name = PkName(t.name)
      /\ \A f : b(f).constraint_type = fk /\ b(f).constraint_name = FkName(t, f)
      /\ \A k : c(k).constraint_type = ck
      /\ \A m : e(m).constraint_type = df
  OBVIOUS
<1> HIDE DEF a, b, c, e, D, R
<1>6. {x \in R : x.constraint_type \in K} = P \cup {b(f) : f \in ToSet(t.fks)}
  BY <1>3, <1>4, <1>5
<1>7. {r.constraint_name : r \in {x \in R : x.constraint_type \in K}} =
      {PkName(t.name) : k \in {t.key} \ {<<>>}} \cup {FkName(t, f) : f \in ToSet(t.fks)}
  BY <1>5, <1>6
<1> QED
  BY <1>7, Zenon DEF R, K, pk, fk

LEMMA TableConstraintsAre ==
  ASSUME NEW d, Typed(d), NEW t \in Tables(d), Single(d, t), WellNamed(t)
  PROVE  {r.CONSTRAINT_NAME : r \in OfTable(TableConstraintsRows(d), t.name)} =
         {PkName(t.name) : k \in {t.key} \ {<<>>}} \cup {FkName(t, fk) : fk \in ToSet(t.fks)}
<1> DEFINE pk      == "PRIMARY KEY"
           fk      == "FOREIGN KEY"
           key(u)  == [CONSTRAINT_NAME |-> PkName(u.name), TABLE_NAME |-> u.name, CONSTRAINT_TYPE |-> pk]
           fkey(x) == [CONSTRAINT_NAME |-> FkName(x.t, x.fk), TABLE_NAME |-> x.t.name, CONSTRAINT_TYPE |-> fk]
           X       == ToSet(ForeignKeys(d))
           R       == TableConstraintsRows(d)
           U       == {u \in Tables(d) : u.key # <<>>}
<1>1. R = {key(u) : u \in U} \cup {fkey(x) : x \in X}
  BY Zenon DEF TableConstraintsRows
<1> HIDE DEF pk, fk
<1>2. /\ \A u : key(u).CONSTRAINT_NAME = PkName(u.name) /\ key(u).TABLE_NAME = u.name
      /\ \A x : fkey(x).CONSTRAINT_NAME = FkName(x.t, x.fk) /\ fkey(x).TABLE_NAME = x.t.name
  OBVIOUS
<1>3. /\ \A u \in Tables(d) : u.name = t.name => u = t
      /\ \A x \in X : x.t \in Tables(d) /\ x.fk \in ToSet(x.t.fks)
  BY SingleIs, ForeignKeyIs
<1>4. \A f \in ToSet(t.fks) : \E x \in X : x.t = t /\ x.fk = f
  <2> TAKE f \in ToSet(t.fks)
  <2> DEFINE x == [t |-> t, fk |-> f]
  <2>1. x \in X
    BY ForeignKeyHas
  <2> QED
    BY <2>1
<1>5. t \in U <=> t.key # <<>>
  OBVIOUS
<1>6. U \subseteq Tables(d)
  OBVIOUS
<1>7. OfTable(R, t.name) = {r \in R : r.TABLE_NAME = t.name}
  BY DEF OfTable
<1> DEFINE O == OfTable(R, t.name)
           N == {PkName(t.name) : k \in {t.key} \ {<<>>}} \cup {FkName(t, f) : f \in ToSet(t.fks)}
<1> HIDE DEF key, fkey, X, R, U
<1>8. ASSUME NEW r \in O PROVE r.CONSTRAINT_NAME \in N
  <2>1. CASE \E u \in U : r = key(u)
    <3>1. PICK u \in U : r = key(u)
      BY <2>1
    <3>2. u.name = t.name /\ u \in Tables(d)
      BY <1>2, <1>6, <1>7, <3>1
    <3>3. u = t
      BY <1>3, <3>2
    <3>4. t.key # <<>> /\ r.CONSTRAINT_NAME = PkName(t.name)
      BY <1>2, <1>5, <3>1, <3>3
    <3> QED
      BY <3>4
  <2>2. CASE \E x \in X : r = fkey(x)
    <3>1. PICK x \in X : r = fkey(x)
      BY <2>2
    <3>2. x.t.name = t.name /\ x.t \in Tables(d)
      BY <1>2, <1>3, <1>7, <3>1
    <3>3. x.t = t
      BY <1>3, <3>2
    <3>4. x.fk \in ToSet(t.fks) /\ r.CONSTRAINT_NAME = FkName(t, x.fk)
      BY <1>2, <1>3, <3>1, <3>3
    <3> QED
      BY <3>4
  <2> QED
    BY <1>1, <1>7, <2>1, <2>2
<1>9. ASSUME NEW n \in N PROVE \E r \in O : n = r.CONSTRAINT_NAME
  <2>1. CASE n = PkName(t.name) /\ t.key # <<>>
    <3>1. key(t) \in O
      BY <1>1, <1>2, <1>5, <1>7, <2>1
    <3> QED
      BY <1>2, <2>1, <3>1
  <2>2. ASSUME NEW f \in ToSet(t.fks), n = FkName(t, f) PROVE \E r \in O : n = r.CONSTRAINT_NAME
    <3>1. PICK x \in X : x.t = t /\ x.fk = f
      BY <1>4
    <3>2. fkey(x) \in O
      BY <1>1, <1>2, <1>7, <3>1
    <3> QED
      BY <1>2, <2>2, <3>1, <3>2
  <2> QED
    BY <2>1, <2>2
<1> HIDE DEF O, N
<1>10. {r.CONSTRAINT_NAME : r \in O} = N
  BY <1>8, <1>9
<1> QED
  BY <1>10 DEF O, N, R

LEMMA ConstraintsReportedAlike ==
  ASSUME NEW d, Typed(d), NEW t \in Tables(d), Single(d, t), WellNamed(t)
  PROVE  ConstraintsAlike(d, t)
<1> DEFINE n  == t.name
           id == ObjectId(n)
           A  == {r.FKCOLUMN_NAME : r \in SpFkeys(d, <<>>, n)}
           B  == UNION {ColName(d, id, r.parent_column_id) :
                          r \in {x \in ForeignKeyColumnsRows(d) : x.parent_object_id = id}}
           C  == {r.constraint_name : r \in {x \in SpHelpconstraint(d, n) : x.constraint_type \in {"PRIMARY KEY", "FOREIGN KEY"}}}
           E  == {r.CONSTRAINT_NAME : r \in OfTable(TableConstraintsRows(d), n)}
           N  == {PkName(n) : k \in {t.key} \ {<<>>}} \cup {FkName(t, fk) : fk \in ToSet(t.fks)}
<1>1. A = KeyColumns(d, t)
  BY FkeysAre
<1>2. B = KeyColumns(d, t)
  BY ForeignColumnsAre
<1>3. C = N
  BY HelpconstraintIs, Zenon
<1>4. E = N
  BY TableConstraintsAre
<1>5. ConstraintsAlike(d, t) <=> A = B /\ C = E
  BY Zenon DEF ConstraintsAlike
<1> HIDE DEF A, B, C, E, N
<1> QED
  BY <1>1, <1>2, <1>3, <1>4, <1>5

(* ---- and that it is a table ---- *)
LEMMA KindReportedAlike ==
  ASSUME NEW d, Typed(d), NEW t \in Tables(d), Single(d, t), WellNamed(t)
  PROVE  KindAlike(d, t)
<1> DEFINE id == ObjectId(t.name)
<1>1. /\ TableById(d, id) = {t} /\ OfId(d.rts, id) = {}
      /\ Named(ToSet(d.rts), t.name) = {} /\ FindTable(d, t.name) = {t}
  BY SingleFound DEF WellNamed
<1>2. ObjectName(d, id) = t.name
  BY <1>1 DEF ObjectName
<1>3. ObjectKind(d, id) = "U"
  <2> DEFINE codes == {RoutineTypeCodes[r.kind] : r \in OfId(d.rts, id)} \cup
                      {c \in {"U"} : OfId(d.rts, id) = {} /\ TableById(d, id) # {}}
  <2>1. codes = {"U"}
    BY <1>1
  <2>2. ObjectKind(d, id) = IF codes = {} THEN "" ELSE CHOOSE c \in codes : TRUE
    BY Zenon DEF ObjectKind
  <2>3. (CHOOSE c \in {"U"} : TRUE) = "U" /\ {"U"} # {}
    OBVIOUS
  <2> HIDE DEF codes
  <2> QED
    BY <2>1, <2>2, <2>3, Zenon
<1>4. SpHelp(d, t.name) = {[Name |-> t.name, Type |-> "user table"]}
  <2> DEFINE what == "user table"
             f(u) == [Name |-> u.name, Type |-> what]
             g(r) == [Name |-> r.name, Type |-> RoutineTypeLabel[r.kind]]
  <2>1. SpHelp(d, t.name) = IF Named(ToSet(d.rts), t.name) # {}
                            THEN {g(r) : r \in Named(ToSet(d.rts), t.name)}
                            ELSE {f(u) : u \in FindTable(d, t.name)}
    BY Zenon DEF SpHelp
  <2> HIDE DEF f, g
  <2>2. SpHelp(d, t.name) = {f(t)}
    BY <1>1, <2>1
  <2> QED
    BY <2>2, Zenon DEF f
<1> QED
  BY <1>2, <1>3, <1>4, Zenon DEF KindAlike

LEMMA TableReportedAlike ==
  ASSUME NEW d, Typed(d), NEW t \in Tables(d), Single(d, t), NumberedAlike(t), WellNamed(t), ~IsSystemDb(Current)
  PROVE  ReportTheSame(d, t)
  BY KeysReportedAlike, ColumnsReportedAlike, IndexesReportedAlike, ConstraintsReportedAlike, KindReportedAlike
  DEF ReportTheSame

(***************************************************************************)
(* What the reporters say of a routine                                     *)
(***************************************************************************)
LEMMA RoutineIs ==
  ASSUME NEW d, Typed(d), NEW r \in ToSet(d.rts)
  PROVE  /\ r.name \in Name /\ r.on \in Name
         /\ r.kind \in {"view", "proc", "func", "trigger"}
<1>1. r \in RoutineDefs
  BY TypedIs
<1> QED
  BY <1>1 DEF RoutineDefs

LEMMA RoutineNamed ==
  ASSUME NEW d, Typed(d), NEW r \in ToSet(d.rts), Single(d, r), r.name # <<>>
  PROVE  LET id == ObjectId(r.name) IN
         /\ ObjectName(d, id) = r.name /\ ObjectKind(d, id) = RoutineTypeCodes[r.kind]
         /\ SpHelptext(d, r.name) = ObjectDefinition(d, id)
         /\ SpHelptext(d, r.name) = {m.definition : m \in {x \in SqlModulesRows(d) : x.object_id = id}}
<1> DEFINE id == ObjectId(r.name)
<1>1. OfId(d.rts, id) = {r} /\ Named(ToSet(d.rts), r.name) = {r}
  BY SingleRoutine
<1>2. ObjectName(d, id) = r.name
  BY <1>1 DEF ObjectName
<1>3. ObjectKind(d, id) = RoutineTypeCodes[r.kind]
  <2> DEFINE codes == {RoutineTypeCodes[x.kind] : x \in OfId(d.rts, id)} \cup
                      {c \in {"U"} : OfId(d.rts, id) = {} /\ TableById(d, id) # {}}
             k     == RoutineTypeCodes[r.kind]
  <2> HIDE DEF id
  <2>1. codes = {k}
    BY <1>1
  <2>2. ObjectKind(d, id) = IF codes = {} THEN "" ELSE CHOOSE c \in codes : TRUE
    BY Zenon DEF ObjectKind
  <2> HIDE DEF codes, k
  <2>3. (CHOOSE c \in {k} : TRUE) = k /\ {k} # {}
    OBVIOUS
  <2>4. ObjectKind(d, id) = k
    BY <2>1, <2>2, <2>3, Zenon
  <2> QED
    BY <2>4 DEF k
<1>4. SpHelptext(d, r.name) = {ScriptDefinition(r)} /\ ObjectDefinition(d, id) = {ScriptDefinition(r)}
  BY <1>1 DEF SpHelptext, ObjectDefinition
<1>5. {m.definition : m \in {x \in SqlModulesRows(d) : x.object_id = id}} = {ScriptDefinition(r)}
  <2> DEFINE f(u) == [object_id |-> ObjectId(u.name), definition |-> ScriptDefinition(u)]
             R    == SqlModulesRows(d)
             M    == {x \in R : x.object_id = id}
  <2>1. R = {f(u) : u \in ToSet(d.rts)}
    BY DEF SqlModulesRows
  <2>2. \A u : f(u).object_id = ObjectId(u.name) /\ f(u).definition = ScriptDefinition(u)
    OBVIOUS
  <2>3. \A u \in ToSet(d.rts) : ObjectId(u.name) = id <=> u = r
    BY SingleRoutine
  <2> HIDE DEF f, R, id
  <2>4. M = {f(r)}
    BY <2>1, <2>2, <2>3
  <2> HIDE DEF M
  <2>5. {m.definition : m \in M} = {ScriptDefinition(r)}
    BY <2>2, <2>4
  <2> QED
    BY <2>5 DEF M, R
<1> QED
  BY <1>2, <1>3, <1>4, <1>5

(* its parameters, and what it refers to                                   *)
LEMMA ParametersAlike ==
  ASSUME NEW d, Typed(d), NEW r \in ToSet(d.rts), Single(d, r), r.name # <<>>
  PROVE  {p.COLUMN_NAME : p \in SpSprocColumns(d, r.name)} =
         {p.name : p \in {x \in ParametersRows(d) : x.object_id = ObjectId(r.name)}}
<1> DEFINE id == ObjectId(r.name)
           ps == r.params
           f(p) == [PROCEDURE_NAME |-> r.name, COLUMN_NAME |-> p.name, DATA_TYPE |-> OdbcType(DeclType(p)),
                    TYPE_NAME |-> TypeName(DeclType(p)), PRECISION |-> TypePrecision(DeclType(p)),
                    LENGTH |-> TypeLength(DeclType(p)), SCALE |-> NumScale(DeclType(p))]
           g(u, i) == [object_id |-> ObjectId(u.name), name |-> u.params[i].name, parameter_id |-> i,
                       system_type_id |-> SysTypeIdByName(u.params[i].decl)]
           S == SpSprocColumns(d, r.name)
           P == ParametersRows(d)
           Q == {x \in P : x.object_id = id}
           N == {ps[i].name : i \in DOMAIN ps}
<1>1. Named(ToSet(d.rts), r.name) = {r}
  BY SingleRoutine
<1>2. S = {f(p) : p \in ToSet(ps)}
  BY <1>1 DEF SpSprocColumns
<1>3. P = UNION {{g(u, i) : i \in DOMAIN u.params} : u \in ToSet(d.rts)}
  BY DEF ParametersRows
<1>4. /\ \A p : f(p).COLUMN_NAME = p.name
      /\ \A u, i : g(u, i).object_id = ObjectId(u.name) /\ g(u, i).name = u.params[i].name
  OBVIOUS
<1>5. \A u \in ToSet(d.rts) : ObjectId(u.name) = id <=> u = r
  BY SingleRoutine
<1> HIDE DEF f, g, S, P, id
<1>6. {p.COLUMN_NAME : p \in S} = N
  <2> HIDE DEF ps
  <2>1. {p.COLUMN_NAME : p \in S} = {p.name : p \in ToSet(ps)}
    BY <1>2, <1>4
  <2>2. {p.name : p \in ToSet(ps)} = N
    BY DEF ToSet
  <2> QED
    BY <2>1, <2>2
<1>7. ASSUME NEW x \in Q PROVE x.name \in N
  <2>1. PICK u \in ToSet(d.rts) : \E i \in DOMAIN u.params : x = g(u, i)
    BY <1>3
  <2>2. PICK i \in DOMAIN u.params : x = g(u, i)
    BY <2>1
  <2>3. u = r
    BY <1>4, <1>5, <2>2
  <2> QED
    BY <1>4, <2>2, <2>3
<1>8. ASSUME NEW i \in DOMAIN ps PROVE \E x \in Q : x.name = ps[i].name
  <2>1. g(r, i) \in {g(r, j) : j \in DOMAIN r.params}
    OBVIOUS
  <2>2. g(r, i) \in P
    BY <1>3, <2>1
  <2>3. g(r, i) \in Q
    BY <1>4, <1>5, <2>2
  <2> QED
    BY <1>4, <2>3
<1> HIDE DEF Q
<1>9. {x.name : x \in Q} = N
  BY <1>7, <1>8
<1> QED
  BY <1>6, <1>9 DEF S, Q, P, id

LEMMA DependsAlike ==
  ASSUME NEW d, Typed(d), NEW r \in ToSet(d.rts), Single(d, r), r.name # <<>>, r.kind = "view"
  PROVE  {x.name : x \in SpDepends(d, r.name)} =
         {x.referenced_entity_name : x \in {y \in DependenciesRows(d) : y.referencing_id = ObjectId(r.name)}}
<1> DEFINE id == ObjectId(r.name)
           f(m) == [name |-> m]
           g(u, n) == [referencing_id |-> ObjectId(u.name), referenced_entity_name |-> n,
                       referenced_id |-> IF Folded(n) \in Known(d) THEN ObjectId(n) ELSE NoId]
           S == SpDepends(d, r.name)
           P == DependenciesRows(d)
           Q == {y \in P : y.referencing_id = id}
           V == Routines(d, {"view"})
           N == ReferencedNames(r)
<1>1. Named(ToSet(d.rts), r.name) = {r}
  BY SingleRoutine
<1>2. S = {f(m) : m \in N}
  BY <1>1 DEF SpDepends
<1>3. P = UNION {{g(u, n) : n \in ReferencedNames(u)} : u \in V}
  BY DEF DependenciesRows
<1>4. /\ \A m : f(m).name = m
      /\ \A u, n : g(u, n).referencing_id = ObjectId(u.name) /\ g(u, n).referenced_entity_name = n
  OBVIOUS
<1>5. r \in V /\ \A u \in V : ObjectId(u.name) = id <=> u = r
  BY SingleRoutine DEF Routines
<1> HIDE DEF f, g, S, P, id, V
<1>6. {x.name : x \in S} = N
  BY <1>2, <1>4
<1>7. ASSUME NEW x \in Q PROVE x.referenced_entity_name \in N
  <2>1. PICK u \in V : \E n \in ReferencedNames(u) : x = g(u, n)
    BY <1>3
  <2>2. PICK n \in ReferencedNames(u) : x = g(u, n)
    BY <2>1
  <2>3. u = r
    BY <1>4, <1>5, <2>2
  <2> QED
    BY <1>4, <2>2, <2>3
<1>8. ASSUME NEW n \in N PROVE \E x \in Q : x.referenced_entity_name = n
  <2>1. g(r, n) \in {g(r, m) : m \in ReferencedNames(r)}
    OBVIOUS
  <2>2. g(r, n) \in P
    BY <1>3, <1>5, <2>1
  <2>3. g(r, n) \in Q
    BY <1>4, <1>5, <2>2
  <2> QED
    BY <1>4, <2>3
<1> HIDE DEF Q, N
<1>9. {x.referenced_entity_name : x \in Q} = N
  BY <1>7, <1>8
<1> QED
  BY <1>6, <1>9 DEF S, Q, P, id

(* ---- a name is like itself ---- *)
LikeStep(s, X, j) ==      \* the places of s it is like itself from j on, X those from j + 1
  IF j > Len(s) THEN {Len(s) + 1}
  ELSE IF s[j] = "%" THEN {i \in 1..(Len(s) + 1) : \E k \in X : i <= k}
  ELSE {i \in 1..Len(s) : s[j] \in {"_", s[i]} /\ i + 1 \in X}

Like(s, m, g) == g = [j \in m..(Len(s) + 1) |-> LikeStep(s, g[j + 1], j)]

LEMMA LikeStepHas ==
  ASSUME NEW s, Len(s) \in Nat, NEW X
  PROVE  /\ LikeStep(s, X, Len(s) + 1) = {Len(s) + 1}
         /\ \A j \in 1..Len(s) : j + 1 \in X => j \in LikeStep(s, X, j)
<1> DEFINE any == "%"
           one == "_"
           n   == Len(s)
<1>1. \A j : LikeStep(s, X, j) = IF j > n THEN {n + 1}
                                 ELSE IF s[j] = any THEN {i \in 1..(n + 1) : \E k \in X : i <= k}
                                 ELSE {i \in 1..n : s[j] \in {one, s[i]} /\ i + 1 \in X}
  BY DEF LikeStep
<1>2. n \in Nat
  OBVIOUS
<1> HIDE DEF any, one, n
<1>3. LikeStep(s, X, n + 1) = {n + 1}
  BY <1>1, <1>2
<1>4. ASSUME NEW j \in 1..n, j + 1 \in X PROVE j \in LikeStep(s, X, j)
  <2>1. ~(j > n) /\ j \in 1..(n + 1) /\ j <= j + 1
    BY <1>2
  <2> QED
    BY <1>1, <1>4, <2>1
<1> QED
  BY <1>3, <1>4 DEF n

LEMMA LikeExists ==
  ASSUME NEW s, Len(s) \in Nat
  PROVE  \E g : Like(s, 1, g)
<1> DEFINE n == Len(s)
           T == {m \in 1..(n + 1) : ~\E g : Like(s, m, g)}
<1>1. n \in Nat /\ n + 1 \in Nat
  OBVIOUS
<1>2. ASSUME T # {} PROVE FALSE
  <2> HIDE DEF n
  <2>1. PICK m \in T : \A y \in T : y <= m
    <3> HIDE DEF T
    <3>1. T \subseteq 1..(n + 1)
      BY DEF T
    <3> QED
      BY <1>1, <1>2, <3>1, GreatestPlace
  <2>2. CASE m = n + 1
    <3> DEFINE g == [j \in m..(n + 1) |-> {n + 1}]
    <3>1. \A j \in m..(n + 1) : LikeStep(s, g[j + 1], j) = {n + 1}
      <4>1. \A j \in m..(n + 1) : j = n + 1
        BY <1>1, <2>2
      <4> QED
        BY <1>1, <4>1, LikeStepHas DEF n
    <3>2. g = [j \in m..(n + 1) |-> LikeStep(s, g[j + 1], j)]
      <4> DEFINE h(j) == LikeStep(s, g[j + 1], j)
      <4>1. \A j \in m..(n + 1) : h(j) = {n + 1}
        BY <3>1
      <4> HIDE DEF h
      <4>2. g = [j \in m..(n + 1) |-> h(j)]
        BY <4>1
      <4> QED
        BY <4>2 DEF h
    <3> HIDE DEF g
    <3>3. Like(s, m, g)
      BY <3>2 DEF Like, n
    <3> QED
      BY <2>1, <3>3
  <2>3. CASE m # n + 1
    <3>1. m \in 1..n /\ m + 1 \in 1..(n + 1) /\ m + 1 \notin T
      BY <1>1, <2>1, <2>3
    <3>2. PICK g : Like(s, m + 1, g)
      BY <3>1
    <3> DEFINE f == [j \in m..(n + 1) |-> IF j = m THEN LikeStep(s, g[m + 1], m) ELSE g[j]]
               e == [j \in m..(n + 1) |-> LikeStep(s, f[j + 1], j)]
    <3>3. \A j \in (m + 1)..(n + 1) : g[j] = LikeStep(s, g[j + 1], j)
      <4>1. g = [j \in (m + 1)..(n + 1) |-> LikeStep(s, g[j + 1], j)]
        BY <3>2 DEF Like, n
      <4> DEFINE h(j) == LikeStep(s, g[j + 1], j)
      <4>2. g = [j \in (m + 1)..(n + 1) |-> h(j)]
        BY <4>1
      <4> HIDE DEF h
      <4>3. \A j \in (m + 1)..(n + 1) : g[j] = h(j)
        BY <4>2
      <4> QED
        BY <4>3 DEF h
    <3>4. ASSUME NEW j \in m..(n + 1) PROVE f[j] = e[j]
      <4>1. CASE j = n + 1
        <5>1. j \in (m + 1)..(n + 1) /\ j # m
          BY <1>1, <2>3, <3>1, <4>1
        <5>2. f[j] = LikeStep(s, g[j + 1], j)
          BY <3>3, <5>1
        <5>3. e[j] = LikeStep(s, f[j + 1], j)
          OBVIOUS
        <5>4. \A X : LikeStep(s, X, n + 1) = {n + 1}
          BY <1>1, LikeStepHas DEF n
        <5> HIDE DEF f, e
        <5> QED
          BY <4>1, <5>2, <5>3, <5>4
      <4>2. CASE j # n + 1
        <5>1. j + 1 \in (m + 1)..(n + 1) /\ j + 1 # m /\ j + 1 \in m..(n + 1)
          BY <1>1, <3>1, <4>2
        <5>2. f[j + 1] = g[j + 1]
          BY <5>1
        <5>3. e[j] = LikeStep(s, f[j + 1], j)
          OBVIOUS
        <5>4. f[j] = LikeStep(s, g[j + 1], j)
          <6>1. CASE j = m
            BY <6>1
          <6>2. CASE j # m
            <7>1. j \in (m + 1)..(n + 1)
              BY <1>1, <3>1, <6>2
            <7> QED
              BY <3>3, <6>2, <7>1
          <6> QED
            BY <6>1, <6>2
        <5> HIDE DEF f, e
        <5> QED
          BY <5>2, <5>3, <5>4
      <4> QED
        BY <4>1, <4>2
    <3>5. f = [j \in m..(n + 1) |-> f[j]] /\ e = [j \in m..(n + 1) |-> e[j]]
      OBVIOUS
    <3>6. f = e
      <4> HIDE DEF e, f
      <4> QED
        BY <3>4, <3>5
    <3>7. Like(s, m, f)
      BY <3>6 DEF Like, n
    <3> QED
      BY <2>1, <3>7
  <2> QED
    BY <2>2, <2>3
<1>3. 1 \in 1..(n + 1) /\ 1 \notin T
  BY <1>1, <1>2
<1> QED
  BY <1>3

LEMMA LikeItself ==
  ASSUME NEW s, Len(s) \in Nat
  PROVE  LikeMatch(s, s)
<1> DEFINE n    == Len(s)
           F(g) == g = [j \in 1..(n + 1) |->
                          IF j > n THEN {n + 1}
                          ELSE IF s[j] = "%" THEN {i \in 1..(n + 1) : \E k \in g[j + 1] : i <= k}
                          ELSE {i \in 1..n : s[j] \in {"_", s[i]} /\ i + 1 \in g[j + 1]}]
           from == CHOOSE g : F(g)
           T    == {j \in 1..(n + 1) : j \notin from[j]}
<1>1. LikeMatch(s, s) <=> 1 \in from[1]
  BY DEF LikeMatch
<1>2. \A g : F(g) <=> Like(s, 1, g)
  BY DEF Like, LikeStep
<1>3. F(from)
  <2> HIDE DEF F
  <2>1. \E g : F(g)
    BY <1>2, LikeExists
  <2> QED
    BY <2>1
<1>4. Like(s, 1, from)
  <2> HIDE DEF F, from
  <2> QED
    BY <1>2, <1>3
<1>5. n \in Nat
  OBVIOUS
<1> HIDE DEF from, F
<1>6. \A j \in 1..(n + 1) : from[j] = LikeStep(s, from[j + 1], j)
  <2> DEFINE h(j) == LikeStep(s, from[j + 1], j)
  <2>1. from = [j \in 1..(n + 1) |-> h(j)]
    BY <1>4 DEF Like
  <2> HIDE DEF h
  <2>2. \A j \in 1..(n + 1) : from[j] = h(j)
    BY <2>1
  <2> QED
    BY <2>2 DEF h
<1>7. ASSUME T # {} PROVE FALSE
  <2>1. PICK m \in T : \A y \in T : y <= m
    <3>1. T \subseteq 1..(n + 1) /\ n + 1 \in Nat
      BY <1>5
    <3> HIDE DEF T, n
    <3> QED
      BY <1>7, <3>1, GreatestPlace
  <2>2. m \in 1..(n + 1) /\ m \notin from[m] /\ from[m] = LikeStep(s, from[m + 1], m)
    BY <1>6, <2>1
  <2>3. CASE m = n + 1
    BY <2>2, <2>3, LikeStepHas
  <2>4. CASE m # n + 1
    <3>1. m \in 1..n /\ m + 1 \in 1..(n + 1) /\ m + 1 \notin T
      BY <1>5, <2>1, <2>2, <2>4
    <3>2. m + 1 \in from[m + 1]
      BY <3>1
    <3>3. \A j \in 1..n : j + 1 \in from[m + 1] => j \in LikeStep(s, from[m + 1], j)
      BY LikeStepHas
    <3> QED
      BY <2>2, <3>1, <3>2, <3>3
  <2> QED
    BY <2>3, <2>4
<1>8. 1 \in 1..(n + 1)
  BY <1>5
<1> QED
  BY <1>1, <1>7, <1>8

LEMMA NameLikeItself ==
  ASSUME NEW n \in Name
  PROVE  MatchLike(n, n)
<1> DEFINE m    == Len(n)
           S    == {Lc(w) : w \in STRING}
           f(i) == Lc(n[i])
           s    == Folded(n)
<1>1. m \in Nat /\ DOMAIN n = 1..m /\ \A i \in 1..m : n[i] \in STRING
  BY DEF Name
<1>2. \A i \in 1..m : f(i) \in S
  BY <1>1
<1>3. s = [i \in 1..m |-> f(i)]
  BY <1>1 DEF Folded
<1> HIDE DEF m, S, f, s
<1>4. [i \in 1..m |-> f(i)] \in [1..m -> S]
  BY <1>2
<1>5. s \in Seq(S)
  BY <1>1, <1>3, <1>4
<1>6. Len(s) \in Nat
  BY <1>5
<1>7. LikeMatch(s, s)
  BY <1>6, LikeItself
<1> QED
  BY <1>7 DEF MatchLike, s

LEMMA StoredAlike ==
  ASSUME NEW d, Typed(d), NEW r \in ToSet(d.rts), Single(d, r), r.name # <<>>
  PROVE  r.kind \in {"proc", "func"} <=> \E x \in SpStoredProcedures(d, r.name) : x.PROCEDURE_NAME = r.name
<1> DEFINE f(u) == [PROCEDURE_NAME |-> u.name, NUM_INPUT_PARAMS |-> Len(u.params),
                    PROCEDURE_TYPE |-> IF u.kind = "func" THEN 2 ELSE 1]
           S    == SpStoredProcedures(d, r.name)
           K    == {"proc", "func"}
           R    == Routines(d, K)
<1>1. S = {f(u) : u \in {s \in R : MatchLike(s.name, r.name)}}
  BY DEF SpStoredProcedures
<1>2. \A u : f(u).PROCEDURE_NAME = u.name
  OBVIOUS
<1>3. R = {u \in ToSet(d.rts) : u.kind \in K}
  BY DEF Routines
<1>4. \A u \in ToSet(d.rts) : u.name = r.name => u = r
  BY SingleRoutine
<1>5. MatchLike(r.name, r.name)
  BY RoutineIs, NameLikeItself
<1> HIDE DEF f, S, K, R
<1>6. ASSUME r.kind \in K PROVE \E x \in S : x.PROCEDURE_NAME = r.name
  <2>1. f(r) \in S
    BY <1>1, <1>3, <1>5, <1>6
  <2> QED
    BY <1>2, <2>1
<1>7. ASSUME NEW x \in S, x.PROCEDURE_NAME = r.name PROVE r.kind \in K
  <2>1. PICK u \in R : x = f(u)
    BY <1>1
  <2>2. u = r
    BY <1>2, <1>3, <1>4, <1>7, <2>1
  <2> QED
    BY <1>3, <2>1, <2>2
<1> QED
  BY <1>6, <1>7 DEF S, K

LEMMA TriggerAlike ==
  ASSUME NEW d, NEW r \in ToSet(d.rts), r.kind = "trigger"
  PROVE  [trigger_name |-> r.name] \in SpHelptrigger(d, r.on)
<1>1. EqualFold(r.on, r.on)
  BY DEF EqualFold
<1>2. r \in {s \in Routines(d, {"trigger"}) : r.on # <<>> => EqualFold(s.on, r.on)}
  BY <1>1 DEF Routines
<1> QED
  BY <1>2 DEF SpHelptrigger

LEMMA RoutineReportedAlike ==
  ASSUME NEW d, Typed(d), NEW r \in ToSet(d.rts), Single(d, r), r.name # <<>>
  PROVE  ReportTheSameRoutine(d, r)
<1> DEFINE id == ObjectId(r.name)
           p  == /\ ObjectName(d, id) = r.name /\ ObjectKind(d, id) = RoutineTypeCodes[r.kind]
                 /\ SpHelptext(d, r.name) = ObjectDefinition(d, id)
                 /\ SpHelptext(d, r.name) = {m.definition : m \in {x \in SqlModulesRows(d) : x.object_id = id}}
           q  == {x.COLUMN_NAME : x \in SpSprocColumns(d, r.name)} =
                 {x.name : x \in {y \in ParametersRows(d) : y.object_id = id}}
           u  == {x.name : x \in SpDepends(d, r.name)} =
                 {x.referenced_entity_name : x \in {y \in DependenciesRows(d) : y.referencing_id = id}}
           v  == [trigger_name |-> r.name] \in SpHelptrigger(d, r.on)
           w  == r.kind \in {"proc", "func"} <=> \E x \in SpStoredProcedures(d, r.name) : x.PROCEDURE_NAME = r.name
<1>1. p
  BY RoutineNamed
<1>2. q
  BY ParametersAlike
<1>3. r.kind = "view" => u
  BY DependsAlike
<1>4. r.kind = "trigger" => v
  BY TriggerAlike
<1>5. w
  BY StoredAlike
<1>6. ReportTheSameRoutine(d, r) <=> p /\ q /\ (r.kind = "view" => u) /\ (r.kind = "trigger" => v) /\ w
  BY DEF ReportTheSameRoutine
<1> HIDE DEF p, q, u, v, w
<1> QED
  BY <1>1, <1>2, <1>3, <1>4, <1>5, <1>6

(* of a table, or a routine, that no other shares its id or its name with, *)
(* every reporter of an answer's description says the same                 *)
(* (ReportersAgree): each is of the one object the description has of it   *)
THEOREM ReportersAgreeCorrect == CacheSpec => []ReportersAgree
<1>1. Init => CacheInv
  BY CacheInvInit
<1>2. CacheInv /\ [Next]_vars => CacheInv'
  BY CacheInvStep
<1>3. CacheInv => ReportersAgree
  <2> SUFFICES ASSUME CacheInv, ~IsSystemDb(Current), NEW a \in Told,
                      NEW o \in Tables(Description(a)) \cup ToSet(Description(a).rts),
                      Single(Description(a), o)
               PROVE  IF o \in Tables(Description(a))
                      THEN NumberedAlike(o) /\ WellNamed(o) => ReportTheSame(Description(a), o)
                      ELSE o.name # <<>> => ReportTheSameRoutine(Description(a), o)
    BY DEF ReportersAgree, Single
  <2> DEFINE d == Description(a)
  <2>1. Typed(d)
    <3>1. a \in Answers
      BY DEF CacheInv, TypeOK, Told
    <3> QED
      BY <3>1, DescriptionType
  <2> HIDE DEF d
  <2>2. ASSUME o \in Tables(d), NumberedAlike(o), WellNamed(o) PROVE ReportTheSame(d, o)
    BY <2>1, <2>2, TableReportedAlike DEF d
  <2>3. ASSUME o \notin Tables(d), o.name # <<>> PROVE ReportTheSameRoutine(d, o)
    BY <2>1, <2>3, RoutineReportedAlike DEF d
  <2> QED
    BY <2>2, <2>3 DEF d
<1> QED
  BY <1>1, <1>2, <1>3, PTL DEF CacheSpec
=============================================================================
