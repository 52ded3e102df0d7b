-------------------------------- MODULE Joins --------------------------------
(***************************************************************************)
(* internal/engine/engine.go, joinQuery: a query over several sources.     *)
(* Conjuncts of the WHERE are pushed into the scans of the sources they    *)
(* are about, a join's right side may be scanned for the keys of its left  *)
(* side only, exec.Join joins, and the whole WHERE is applied at the end.  *)
(* A subquery of an ON or of the WHERE that is correlated with the row is  *)
(* run for each row, and scans its table each time (makeSubFn).            *)
(*                                                                         *)
(* A joined row maps the place of every source to a row; a side that an    *)
(* outer join filled in, or that is not joined yet, is NullRow.  A table   *)
(* is a set of rows: what counts is which rows are answered.  APPLY, and   *)
(* what follows the WHERE, are left out.                                   *)
(***************************************************************************)
EXTENDS Integers, Sequences, FiniteSets

CONSTANTS
  Rel,          \* what can be read: tables, temp tables, derived tables
  Local,        \* those the engine evaluates itself: temp tables and system views
  Name,         \* aliases and table names
  NoName,       \* the table name of a derived table, and the qualifier of a bare column
  Col, Value, Null,
  ColsOf,       \* the columns of each of Rel
  SubRel, SubCol, SubKey, \* the correlated subquery: SELECT SubCol FROM SubRel WHERE SubKey = the outer row's value
  Queries,      \* the queries
  Stores,       \* contents of the tables
  SemiJoinCap,  \* semiJoinCap
  MaxWrites     \* bound: writes of other connections during the query

Datum   == Value \cup {Null}
Row     == [Col -> Datum]
NullRow == [c \in Col |-> Null]
Ref     == [q : Name \cup {NoName}, c : Col]

(* A predicate compares a column with a literal or a column, tests it for  *)
(* NULL, or is `a IN (the subquery correlated by b)'.  A conjunct of a     *)
(* WHERE or an ON is a disjunction of predicates, or its negation.         *)
Pred     == [op : {"eqv", "eq", "null", "notnull", "in"}, a : Ref, b : Ref, v : Value]
Conjunct == [neg : BOOLEAN, any : SUBSET Pred]
JoinType == {"from", "inner", "left", "right", "full", "cross"}
Source   == [alias : Name, table : Name \cup {NoName}, rel : Rel, type : JoinType, on : SUBSET Conjunct]

Places(p) == 1..Len(p.src)

ASSUME JoinsAssumption ==
  /\ NoName \notin Name /\ Null \notin Value
  /\ Local \subseteq Rel
  /\ ColsOf \in [Rel -> SUBSET Col]
  /\ SubRel \in Rel /\ SubCol \in Col /\ SubKey \in Col
  /\ Stores \subseteq [Rel -> SUBSET Row]
  /\ SemiJoinCap \in Nat /\ MaxWrites \in Nat
  /\ \A p \in Queries :
        /\ p.src \in Seq(Source) /\ Len(p.src) >= 2
        /\ p.where \in SUBSET Conjunct
        /\ \A i, j \in Places(p) : p.src[i].alias = p.src[j].alias => i = j

VARIABLES
  q,        \* the query; never changes
  where,    \* its WHERE, as qualifyBareWhere leaves it
  pc,       \* what joinQuery does next
  at,       \* the sources joined so far
  rows,     \* the rows joined so far
  got,      \* what the scan of the next source returned
  todo,     \* the rows whose ON or WHERE is still to be evaluated
  hits,     \* those of which it is TRUE
  met,      \* history: the contents that scan met
  whole,    \* history: the rows the same contents give if nothing is pushed
  store,    \* the contents of the tables
  result,   \* the answer
  ctx,      \* the caller: is it there, the sources begun when it left, and those scanned since
  writes    \* the tables other connections wrote to

eval == <<got, todo, hits, met>>
vars == <<q, where, pc, at, rows, eval, whole, store, result, ctx, writes>>

-----------------------------------------------------------------------------
(* exec/truth.go: three-valued logic.  env gives every reference a value,  *)
(* sub the values the subquery finds for one of the outer row's.           *)

Cmp(x, y) == IF Null \in {x, y} THEN "U" ELSE IF x = y THEN "T" ELSE "F"

SomeTruth(ts) == IF "T" \in ts THEN "T" ELSE IF "U" \in ts THEN "U" ELSE "F"

InTruth(x, list) == SomeTruth({Cmp(x, y) : y \in list})

Not(t) == CASE t = "T" -> "F" [] t = "F" -> "T" [] t = "U" -> "U"

PredTruth(pr, env, sub) ==
  CASE pr.op = "eqv"     -> Cmp(env[pr.a], pr.v)
    [] pr.op = "eq"      -> Cmp(env[pr.a], env[pr.b])
    [] pr.op = "null"    -> IF env[pr.a] = Null THEN "T" ELSE "F"
    [] pr.op = "notnull" -> IF env[pr.a] = Null THEN "F" ELSE "T"
    [] pr.op = "in"      -> InTruth(env[pr.a], sub[env[pr.b]])

Truth(c, env, sub) ==
  LET t == SomeTruth({PredTruth(pr, env, sub) : pr \in c.any})
  IN  IF c.neg THEN Not(t) ELSE t

Holds(cs, env, sub) == \A c \in cs : Truth(c, env, sub) = "T"

NullEnv    == [f \in Ref |-> Null]
ScanEnv(t) == [f \in Ref |-> t[f.c]]   \* a scan's rows know the column by its last part

(* An evaluator without a SubFn takes an IN of a subquery for FALSE, as one *)
(* that finds nothing.                                                     *)
NoSub == [v \in Datum |-> {}]

(* makeSubFn: the subquery's table is scanned, for the value of the row, as *)
(* it is at that moment.  A query without a subquery calls it for no row.   *)
SubOf(contents) == [v \in Datum |-> {t[SubCol] : t \in {u \in contents[SubRel] : Cmp(u[SubKey], v) = "T"}}]

UsesSub(cs) == \E c \in cs : \E pr \in c.any : pr.op = "in"
HasSub(p)   == UsesSub(p.where) \/ \E i \in Places(p) : UsesSub(p.src[i].on)
SubFn(p, contents) == IF HasSub(p) THEN SubOf(contents) ELSE NoSub

(* exec.RejectsNulls *)
RejectsNulls(c) == Truth(c, NullEnv, NoSub) # "T"

-----------------------------------------------------------------------------
(* Names.  resolveCol takes the source with that alias; a name no alias    *)
(* qualifies is the column of the only source, of those joined so far,     *)
(* that has it.                                                            *)

HasCol(p, i, c) == c \in ColsOf[p.src[i].rel]

Candidates(p, k, f) ==
  LET exact == {i \in 1..k : p.src[i].alias = f.q /\ HasCol(p, i, f.c)}
  IN  IF exact # {} THEN exact ELSE {i \in 1..k : HasCol(p, i, f.c)}

Resolves(p, k, f) == \E i \in 1..k : Candidates(p, k, f) = {i}
Place(p, k, f)    == CHOOSE i \in 1..k : i \in Candidates(p, k, f)

RowEnv(p, k, r) == [f \in Ref |-> IF Resolves(p, k, f) THEN r[Place(p, k, f)][f.c] ELSE Null]

PredCols(pr)     == IF pr.op \in {"eq", "in"} THEN {pr.a, pr.b} ELSE {pr.a}
RefsOf(cs)       == UNION {PredCols(pr) : pr \in UNION {c.any : c \in cs}}
Resolved(p, k, cs) == \A f \in RefsOf(cs) : Resolves(p, k, f)

(* exprCols does not look into a subquery: what correlates it is not seen. *)
ExprCols(c) == UNION {IF pr.op = "eq" THEN {pr.a, pr.b} ELSE {pr.a} : pr \in c.any}

(* columnOwners: the tables of the query that the catalogue lists with the *)
(* column, each under the last alias it is joined by.                      *)
InScope(p, i)   == p.src[i].table # NoName /\ p.src[i].rel \notin Local
LastOf(p, i)    == \A j \in Places(p) : j > i => p.src[j].table # p.src[i].table
Owners(p, c)    == {i \in Places(p) : InScope(p, i) /\ LastOf(p, i) /\ HasCol(p, i, c)}

(* mutant: the first source that has the column will do *)
BugQualifyRef(p, f) ==
  IF f.q = NoName /\ Owners(p, f.c) # {}
  THEN [f EXCEPT !.q = p.src[CHOOSE i \in Places(p) : i \in Owners(p, f.c)].alias]
  ELSE f

QualifyRef(p, f) ==
  IF f.q = NoName /\ \E i \in Places(p) : Owners(p, f.c) = {i}
  THEN [f EXCEPT !.q = p.src[CHOOSE i \in Places(p) : i \in Owners(p, f.c)].alias]
  ELSE f

(* walkPredicates reaches the column on the left of a predicate only *)
QualifyPred(p, pr) == [pr EXCEPT !.a = QualifyRef(p, pr.a)]
QualifyConj(p, c)  == [c EXCEPT !.any = {QualifyPred(p, pr) : pr \in c.any}]

-----------------------------------------------------------------------------
(* What is pushed into the scan of source i *)

IsQualified(p, i, f) == f.q # NoName /\ f.q \in {p.src[i].alias, p.src[i].table}

SingleTableWhere(p, cs, i) ==
  {c \in cs : ExprCols(c) # {} /\ \A f \in ExprCols(c) : IsQualified(p, i, f)}

(* mutant: the joins that follow are forgotten *)
BugSuppliesNulls(p, i) == p.src[i].type \in {"left", "full"}

SuppliesNulls(p, i) ==
  \/ p.src[i].type \in {"left", "full"}
  \/ \E j \in Places(p) : j > i /\ p.src[j].type \in {"right", "full"}

Pushed(p, cs, i) ==
  LET w == SingleTableWhere(p, cs, i)
  IN  IF p.src[i].table = NoName THEN {}
      ELSE IF SuppliesNulls(p, i) THEN {c \in w : RejectsNulls(c)} ELSE w

(* The engine evaluates what it pushes to a source of its own, without a   *)
(* SubFn.  A backend cannot evaluate a subquery, and may ignore more.      *)
Honoured(p, cs, i) ==
  {c \in Pushed(p, cs, i) : p.src[i].rel \in Local \/ \A pr \in c.any : pr.op # "in"}

Passes(p, cs, i, t) == Holds(Honoured(p, cs, i), ScanEnv(t), NoSub)

(* joinKeys: ON is `a = b' and one of the two is qualified by the right side *)
JoinKeys(p, i) ==
  LET equal == {pr \in UNION {c.any : c \in p.src[i].on} : pr.op = "eq"}
  IN  {k \in {[left |-> pr.a, right |-> pr.b] : pr \in equal}
              \cup {[left |-> pr.b, right |-> pr.a] : pr \in equal} :
         /\ \E c \in p.src[i].on, pr \in equal :
               p.src[i].on = {c} /\ c.any = {pr} /\ ~c.neg
         /\ IsQualified(p, i, k.right) /\ ~IsQualified(p, i, k.left)}

(* distinctColValues: the column of that name, or the first with its last part *)
KeyPlaces(p, i, f) ==
  LET exact == {j \in 1..(i-1) : p.src[j].alias = f.q /\ HasCol(p, j, f.c)}
      named == {j \in 1..(i-1) : HasCol(p, j, f.c)}
  IN  IF exact # {} THEN exact ELSE {j \in named : \A k \in named : j <= k}

KeyValues(p, i, f, rs) == (UNION {{r[j][f.c] : r \in rs} : j \in KeyPlaces(p, i, f)}) \ {Null}

SemiJoin(p, i, rs, t) ==
  p.src[i].type \in {"inner", "left"} /\ p.src[i].table # NoName =>
    \A k \in JoinKeys(p, i) :
      LET vals == KeyValues(p, i, k.left, rs)
      IN  vals # {} /\ Cardinality(vals) <= SemiJoinCap => t[k.right.c] \in vals

(* What a scan of source i may return of its contents *)
Scan(p, cs, i, rs, all, ts) ==
  LET asked == {t \in all : Passes(p, cs, i, t) /\ SemiJoin(p, i, rs, t)}
  IN  CASE p.src[i].table = NoName -> ts = all
        [] p.src[i].rel \in Local  -> ts = asked
        [] OTHER                   -> asked \subseteq ts /\ ts \subseteq all

(* exec.Join: the rows of rs with those of ts at place i, of which the ON is *)
(* TRUE for the rows of found                                               *)
Pairs(i, rs, ts) == {[r EXCEPT ![i] = t] : r \in rs, t \in ts}
Matched(p, i, rs, ts, sub) == {r \in Pairs(i, rs, ts) : Holds(p.src[i].on, RowEnv(p, i, r), sub)}

LeftOver(i, rs, found)      == {r \in rs : \A m \in found : [m EXCEPT ![i] = NullRow] # r}
RightOver(p, i, ts, found)  ==
  {[j \in Places(p) |-> IF j = i THEN t ELSE NullRow] : t \in {u \in ts : \A m \in found : m[i] # u}}

Join(p, i, rs, ts, found) ==
  found
  \cup (IF p.src[i].type \in {"left", "full"} THEN LeftOver(i, rs, found) ELSE {})
  \cup (IF p.src[i].type \in {"right", "full"} THEN RightOver(p, i, ts, found) ELSE {})

-----------------------------------------------------------------------------
Init ==
  /\ q \in Queries
  /\ where = q.where
  /\ pc = "qualify" /\ at = 0
  /\ rows = {} /\ got = {} /\ todo = {} /\ hits = {} /\ met = {} /\ whole = {} /\ result = {}
  /\ store \in Stores
  /\ ctx = [live |-> TRUE, left |-> 0, late |-> 0]
  /\ writes = <<>>

Began == IF ctx.live THEN UNCHANGED ctx ELSE ctx' = [ctx EXCEPT !.late = @ + 1]

(* qualifyBareWhere; it gives up if the catalogue cannot be read *)
Qualify ==
  /\ pc = "qualify" /\ pc' = "from"
  /\ where' \in {where, {QualifyConj(q, c) : c \in where}}
  /\ UNCHANGED <<q, at, rows, eval, whole, store, result, ctx, writes>>

(* mutant: the rows of the FROM fill every place *)
BugFirst(ts) == {[j \in Places(q) |-> t] : t \in ts}

First(ts) == {[j \in Places(q) |-> IF j = 1 THEN t ELSE NullRow] : t \in ts}

ScanFrom ==
  /\ pc = "from" /\ pc' = "loop" /\ at' = 1
  /\ \E ts \in SUBSET store[q.src[1].rel] :
        /\ Scan(q, where, 1, {}, store[q.src[1].rel], ts)
        /\ rows' = First(ts)
  /\ whole' = First(store[q.src[1].rel])
  /\ Began
  /\ UNCHANGED <<q, where, eval, store, result, writes>>

(* mutant: nothing asks whether the caller is still there *)
BugCheckCancelled ==
  /\ pc = "loop" /\ at + 1 \in Places(q)
  /\ pc' = "join"
  /\ UNCHANGED <<q, where, at, rows, eval, whole, store, result, ctx, writes>>

(* cancelled(ctx), at the head of the loop *)
CheckCancelled ==
  /\ pc = "loop" /\ at + 1 \in Places(q)
  /\ pc' = IF ctx.live THEN "join" ELSE "cancelled"
  /\ UNCHANGED <<q, where, at, rows, eval, whole, store, result, ctx, writes>>

(* The next source is scanned; its ON is then evaluated for every pair *)
ScanNext ==
  /\ pc = "join" /\ pc' = "on"
  /\ LET all == store[q.src[at + 1].rel]
     IN  /\ \E ts \in SUBSET all : Scan(q, where, at + 1, rows, all, ts) /\ got' = ts
         /\ met' = all
  /\ todo' = Pairs(at + 1, rows, got') /\ hits' = {}
  /\ Began
  /\ UNCHANGED <<q, where, at, rows, whole, store, result, writes>>

(* Every source is joined: ApplyWith filters by the whole WHERE *)
Filter ==
  /\ pc = "loop" /\ at = Len(q.src) /\ pc' = "where"
  /\ todo' = rows /\ hits' = {}
  /\ UNCHANGED <<q, where, at, rows, got, met, whole, store, result, ctx, writes>>

(* The condition being evaluated, and over how many sources *)
Condition == IF pc = "on" THEN q.src[at + 1].on ELSE where
Span      == IF pc = "on" THEN at + 1 ELSE at

(* evalExpr, for one row after the other.  What a subquery finds may change *)
(* between two rows; without one, all rows may as well be evaluated at once. *)
Evaluate ==
  /\ pc \in {"on", "where"} /\ todo # {} /\ Resolved(q, Span, Condition)
  /\ \E some \in IF UsesSub(Condition) THEN {{r} : r \in todo} ELSE {todo} :
        /\ todo' = todo \ some
        /\ hits' = hits \cup {r \in some : Holds(Condition, RowEnv(q, Span, r), SubFn(q, store))}
  /\ UNCHANGED <<q, where, pc, at, rows, got, met, whole, store, result, ctx, writes>>

(* exec.Join returns *)
JoinNext ==
  /\ pc = "on" /\ todo = {} /\ pc' = "loop" /\ at' = at + 1
  /\ rows' = Join(q, at + 1, rows, got, hits)
  /\ whole' = Join(q, at + 1, whole, met, Matched(q, at + 1, whole, met, SubFn(q, store)))
  /\ got' = {} /\ hits' = {} /\ met' = {}
  /\ UNCHANGED <<q, where, todo, store, result, ctx, writes>>

(* ApplyWith returns *)
Finish ==
  /\ pc = "where" /\ todo = {} /\ pc' = "done"
  /\ result' = hits
  /\ UNCHANGED <<q, where, at, rows, eval, whole, store, ctx, writes>>

(* a scan fails, of a source or of a subquery, or a condition names a column *)
(* that is not there                                                         *)
JoinFails ==
  /\ pc' = "error"
  /\ \/ pc \in {"from", "join"} /\ Began
     \/ /\ pc \in {"on", "where"} /\ todo # {}
        /\ UsesSub(Condition) \/ ~Resolved(q, Span, Condition)
        /\ UNCHANGED ctx
  /\ UNCHANGED <<q, where, at, rows, eval, whole, store, result, writes>>

(* The caller's context is cancelled *)
Cancel ==
  /\ pc \notin {"done", "error", "cancelled"} /\ ctx.live
  /\ ctx' = [ctx EXCEPT !.live = FALSE, !.left = IF pc \in {"join", "on"} THEN at + 1 ELSE at]
  /\ UNCHANGED <<q, where, pc, at, rows, eval, whole, store, result, writes>>

(* Another connection changes a table; temp tables are the batch's own.  A *)
(* write counts where the next scan is, of a source or of a subquery.      *)
Write ==
  /\ pc = "join" \/ (pc \in {"on", "where"} /\ todo # {} /\ UsesSub(Condition))
  /\ Len(writes) < MaxWrites
  /\ \E rel \in Rel \ Local, s \in Stores :
        /\ s[rel] # store[rel] /\ store' = [store EXCEPT ![rel] = s[rel]]
        /\ writes' = Append(writes, rel)
  /\ UNCHANGED <<q, where, pc, at, rows, eval, whole, result, ctx>>

Next ==
  \/ Qualify \/ ScanFrom \/ CheckCancelled \/ ScanNext \/ Filter \/ Evaluate \/ JoinNext \/ Finish \/ JoinFails
  \/ Cancel \/ Write

Spec == Init /\ [][Next]_vars

-----------------------------------------------------------------------------
JoinedRow(p) == [Places(p) -> Row]

(* Rows of the first k sources, with NULLs for the others *)
Upto(p, k, rs) == rs \subseteq JoinedRow(p) /\ \A r \in rs, j \in Places(p) : j > k => r[j] = NullRow

(* Type invariant: the state of joinQuery is well typed, and no joined row *)
(* has values of a source that was not joined yet.                         *)
TypeOK ==
  /\ where \subseteq Conjunct
  /\ pc \in {"qualify", "from", "loop", "join", "on", "where", "done", "error", "cancelled"}
  /\ at \in 0..Len(q.src)
  /\ Upto(q, at, rows) /\ Upto(q, at, whole) /\ Upto(q, at, result)
  /\ Upto(q, at + 1, todo) /\ Upto(q, at + 1, hits)
  /\ met \subseteq Row /\ got \subseteq met
  /\ store \in [Rel -> SUBSET Row]
  /\ ctx \in [live : BOOLEAN, left : 0..Len(q.src), late : Nat]
  /\ writes \in Seq(Rel \ Local) /\ Len(writes) <= MaxWrites

(* What a query is in T-SQL: every name is that of one column of one source, *)
(* and no alias is the name of another source's table.                       *)
ClearRef(p, k, f) ==
  /\ f.q = NoName \/ \E i \in 1..k : p.src[i].alias = f.q /\ HasCol(p, i, f.c)
  /\ Resolves(p, k, f)

Clear(p) ==
  /\ \A i, j \in Places(p) : i # j => p.src[i].alias # p.src[j].table
  /\ \A f \in RefsOf(p.where) : ClearRef(p, Len(p.src), f)
  /\ \A i \in Places(p) : \A f \in RefsOf(p.src[i].on) : ClearRef(p, i, f)

(* No source the engine evaluates itself meets a correlated subquery. *)
NoLocalSub(p) ==
  (\E i \in Places(p) : p.src[i].rel \in Local) =>
    \A c \in p.where : \A pr \in c.any : pr.op # "in"

(* The table of the subquery does not change while rows are evaluated. *)
SubSteady == HasSub(q) => \A k \in DOMAIN writes : writes[k] # SubRel

(* The answer is what the WHERE leaves of the whole join *)
AnswerIsWhole ==
  pc = "done" => result = {r \in whole : Holds(q.where, RowEnv(q, at, r), SubFn(q, store))}

(* Pushing conjuncts and join keys into the scans never changes the answer: *)
(* whatever the backend makes of them, and whatever outer joins surround a  *)
(* source, the rows are those of the WHERE over the unfiltered join of the  *)
(* contents the scans met (joinQuery, suppliesNulls, nullRejecting, the     *)
(* semi-join, qualifyBareWhere).  The sources may change between the scans; *)
(* the table of a subquery may not, or each row meets another.              *)
PushdownSound == pc = "done" /\ SubSteady /\ NoLocalSub(q) /\ Clear(q) => AnswerIsWhole

(* qualifyBareWhere leaves ambiguous names as they were: it gives an alias  *)
(* only to a name that is the column of one source - unless the query joins *)
(* a table to itself (the scope is keyed by table name) or has a source     *)
(* that is not in the catalogue.                                            *)
AmbiguousLeft ==
  (\A i \in Places(q) : InScope(q, i) /\ LastOf(q, i)) =>
    \A f \in RefsOf(q.where) :
      pc # "qualify" /\ f \notin RefsOf(where) => Resolves(q, Len(q.src), f)

(* What goes on for a caller who is gone is the step under way, no further:  *)
(* at most one more source is scanned, an ON is evaluated only of the source *)
(* being joined when it left, and the WHERE, and an answer, come only if     *)
(* every source had begun by then (cancelled, at the head of the loop).      *)
(* Within an ON or the WHERE nothing asks for the caller: the subqueries of  *)
(* all the rows are still run, a scan each (makeSubFn).                      *)
CancelPrompt ==
  ~ctx.live =>
    /\ ctx.late <= 1
    /\ pc = "on" => ctx.left = at + 1
    /\ pc \in {"where", "done"} => ctx.left = Len(q.src)
=============================================================================
