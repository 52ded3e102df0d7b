---------------------------- MODULE GatewayProofs ----------------------------
(***************************************************************************)
(* The gateways over one store (Gateways), for any number of gateways and  *)
(* of every kind.                                                          *)
(***************************************************************************)
EXTENDS Gateways, FiniteSetTheorems, WellFoundedInduction, TLAPS

-----------------------------------------------------------------------------
(* Lists *)

LEMMA ListIn ==
  ASSUME NEW S, NEW s \in Seq(S)
  PROVE  List(s) /\ ToSet(s) \subseteq S
<1>1. Len(s) \in Nat /\ DOMAIN s = 1..Len(s) /\ \A i \in 1..Len(s) : s[i] \in S
  OBVIOUS
<1>2. \A i \in 1..Len(s) : s[i] \in ToSet(s)
  BY <1>1 DEF ToSet
<1>3. s \in Seq(ToSet(s))
  <2> DEFINE R == ToSet(s)
  <2>1. \A i \in 1..Len(s) : s[i] \in R
    BY <1>2
  <2> HIDE DEF R
  <2>2. s \in Seq(R)
    BY <2>1
  <2> QED BY <2>2 DEF R
<1> QED BY <1>1, <1>3 DEF List, ToSet

LEMMA ListElems ==
  ASSUME NEW s, List(s)
  PROVE  /\ Len(s) \in Nat /\ DOMAIN s = 1..Len(s)
         /\ \A i \in 1..Len(s) : s[i] \in ToSet(s)
         /\ \A x \in ToSet(s) : \E i \in 1..Len(s) : s[i] = x
         /\ s = <<>> <=> Len(s) = 0
<1> DEFINE R == ToSet(s)
<1>1. s \in Seq(R)
  BY DEF List
<1>2. Len(s) \in Nat /\ DOMAIN s = 1..Len(s)
  <2> HIDE DEF R
  <2> QED BY <1>1
<1>3. s = <<>> <=> Len(s) = 0
  <2> HIDE DEF R
  <2> QED BY <1>1
<1> QED BY <1>2, <1>3 DEF ToSet

LEMMA NoList == List(<<>>) /\ ToSet(<<>>) = {}
<1>1. <<>> \in Seq(STRING)
  OBVIOUS
<1>2. List(<<>>)
  BY <1>1, ListIn
<1>3. \A x : x \notin ToSet(<<>>)
  BY ListElems, <1>2
<1> QED BY <1>2, <1>3

LEMMA OneList ==
  ASSUME NEW x
  PROVE  List(<<x>>) /\ ToSet(<<x>>) = {x}
<1>1. <<x>> \in Seq({x})
  OBVIOUS
<1>2. x \in ToSet(<<x>>)
  BY DEF ToSet
<1> QED BY <1>1, <1>2, ListIn

LEMMA TwoList ==
  ASSUME NEW x, NEW y
  PROVE  List(<<x, y>>) /\ ToSet(<<x, y>>) = {x, y}
<1>1. <<x, y>> \in Seq({x, y})
  OBVIOUS
<1>2. x \in ToSet(<<x, y>>) /\ y \in ToSet(<<x, y>>)
  BY DEF ToSet
<1> QED BY <1>1, <1>2, ListIn

LEMMA FnList ==
  ASSUME NEW n \in Nat, NEW s, DOMAIN s = 1..n, s = [i \in 1..n |-> s[i]]
  PROVE  List(s) /\ Len(s) = n
<1> DEFINE R == ToSet(s)
<1>1. \A i \in 1..n : s[i] \in R
  BY DEF ToSet
<1> HIDE DEF R
<1>2. s \in Seq(R) /\ Len(s) = n
  BY <1>1
<1> QED BY <1>2 DEF R, List

LEMMA ListConcat ==
  ASSUME NEW s, NEW t, List(s), List(t)
  PROVE  /\ List(s \o t) /\ Len(s \o t) = Len(s) + Len(t)
         /\ ToSet(s \o t) = ToSet(s) \cup ToSet(t)
         /\ \A i \in 1..Len(s) : (s \o t)[i] = s[i]
         /\ \A i \in 1..Len(t) : (s \o t)[Len(s) + i] = t[i]
<1> DEFINE R == ToSet(s) \cup ToSet(t)
           c == s \o t
<1>1. s \in Seq(R) /\ t \in Seq(R)
  <2>1. s \in Seq(ToSet(s)) /\ t \in Seq(ToSet(t))
    BY DEF List
  <2> QED BY <2>1
<1> HIDE DEF R
<1>2. /\ c \in Seq(R) /\ Len(c) = Len(s) + Len(t)
      /\ \A i \in 1..Len(s) : c[i] = s[i]
      /\ \A i \in 1..Len(t) : c[Len(s) + i] = t[i]
  BY <1>1
<1>3. Len(s) \in Nat /\ Len(t) \in Nat /\ DOMAIN s = 1..Len(s) /\ DOMAIN t = 1..Len(t) /\ DOMAIN c = 1..Len(c)
  BY <1>1, <1>2
<1> HIDE DEF c
<1>4. List(c) /\ ToSet(c) \subseteq R
  BY <1>2, ListIn
<1>5. \A x \in R : x \in ToSet(c)
  <2> TAKE x \in R
  <2>1. CASE x \in ToSet(s)
    <3> PICK i \in 1..Len(s) : x = s[i]
      BY <2>1, <1>3 DEF ToSet
    <3>1. i \in DOMAIN c /\ c[i] = x
      BY <1>2, <1>3
    <3> QED BY <3>1 DEF ToSet
  <2>2. CASE x \in ToSet(t)
    <3> PICK i \in 1..Len(t) : x = t[i]
      BY <2>2, <1>3 DEF ToSet
    <3>1. Len(s) + i \in DOMAIN c /\ c[Len(s) + i] = x
      BY <1>2, <1>3
    <3> QED BY <3>1 DEF ToSet
  <2> QED BY <2>1, <2>2 DEF R
<1>6. ToSet(c) = R
  BY <1>4, <1>5
<1> QED BY <1>2, <1>4, <1>6 DEF R, c

LEMMA ListAppend ==
  ASSUME NEW s, List(s), NEW x
  PROVE  List(Append(s, x)) /\ Len(Append(s, x)) = Len(s) + 1 /\ ToSet(Append(s, x)) = ToSet(s) \cup {x}
<1>1. Append(s, x) = s \o <<x>>
  <2> DEFINE R == ToSet(s) \cup {x}
  <2>1. s \in Seq(R) /\ x \in R
    <3>1. s \in Seq(ToSet(s))
      BY DEF List
    <3> QED BY <3>1
  <2> HIDE DEF R
  <2> QED BY <2>1
<1>2. Len(<<x>>) = 1
  OBVIOUS
<1> QED BY <1>1, <1>2, ListConcat, OneList

LEMMA ListTail ==
  ASSUME NEW s, List(s), s # <<>>
  PROVE  /\ List(Tail(s)) /\ Len(s) > 0 /\ Len(Tail(s)) = Len(s) - 1
         /\ Head(s) = s[1]
         /\ \A i \in 1..(Len(s) - 1) : Tail(s)[i] = s[i + 1]
         /\ ToSet(s) = {Head(s)} \cup ToSet(Tail(s))
<1> DEFINE R == ToSet(s)
           u == Tail(s)
<1>1. s \in Seq(R)
  BY DEF List
<1> HIDE DEF R
<1>2. /\ u \in Seq(R) /\ Len(s) \in Nat /\ Len(s) > 0 /\ Len(u) = Len(s) - 1 /\ Head(s) = s[1]
      /\ \A i \in 1..(Len(s) - 1) : u[i] = s[i + 1]
  BY <1>1
<1>3. DOMAIN s = 1..Len(s) /\ DOMAIN u = 1..Len(u)
  BY <1>1, <1>2
<1> HIDE DEF u
<1>4. List(u)
  BY <1>2, ListIn
<1>5. \A x \in ToSet(s) : x = s[1] \/ x \in ToSet(u)
  <2> TAKE x \in ToSet(s)
  <2> PICK i \in 1..Len(s) : x = s[i]
    BY <1>3 DEF ToSet
  <2>1. CASE i = 1
    BY <2>1
  <2>2. CASE i > 1
    <3>1. i - 1 \in 1..Len(u) /\ i - 1 \in 1..(Len(s) - 1) /\ (i - 1) + 1 = i
      BY <2>2, <1>2
    <3>2. u[i - 1] = s[i]
      BY <1>2, <3>1
    <3> QED BY <3>1, <3>2, <1>3 DEF ToSet
  <2> QED BY <1>2, <2>1, <2>2
<1>6. \A x \in ToSet(u) : x \in ToSet(s)
  <2> TAKE x \in ToSet(u)
  <2> PICK i \in 1..Len(u) : x = u[i]
    BY <1>3 DEF ToSet
  <2>1. i \in 1..(Len(s) - 1) /\ i + 1 \in 1..Len(s)
    BY <1>2
  <2>2. u[i] = s[i + 1]
    BY <1>2, <2>1
  <2> QED BY <2>1, <2>2, <1>3 DEF ToSet
<1>7. s[1] \in ToSet(s)
  BY <1>2, <1>3 DEF ToSet
<1> QED BY <1>2, <1>4, <1>5, <1>6, <1>7 DEF u

-----------------------------------------------------------------------------
(* Types: what is stored, declared and answered, and what calls carry *)

Fields(m, S) == \A f \in DOMAIN m : m[f] \in S
CollOK(x)    == x = [fields |-> x.fields, docs |-> x.docs] /\ Fields(x.fields, EsNames)
DeclOK(d)    == /\ d = [table |-> d.table, cols |-> d.cols, key |-> d.key, again |-> d.again]
                /\ d.table \in TableNames /\ Fields(d.cols, SqlNames)
                /\ List(d.again) /\ \A x \in ToSet(d.again) : Fields(x, SqlNames)
DeclsOK(ds)  == List(ds) /\ \A d \in ToSet(ds) : DeclOK(d)
StoreOK(s) ==
  /\ DOMAIN s.coll \subseteq TableNames /\ \A t \in DOMAIN s.coll : CollOK(s.coll[t])
  /\ DeclsOK(s.decls) /\ (s.decls # <<>> => s.index)
GotOK(xs) == \A x \in xs : x.name \in TableNames /\ Fields(x.cols, Types)

NoTableCalls == {"readDecls", "countDecls", "listNames", "insertDecls", "declIndexCreate"}
CallOK(c) ==
  /\ c.c \in NoTableCalls \/ c.t \in TableNames
  /\ c.c \in {"create", "putMapping"} => Fields(c.x, EsNames)
  /\ c.c = "pushCols" => Fields(c.x, SqlNames)
  /\ c.c \in {"putDecl", "insertDecl"} => DeclOK(c.x)
  /\ c.c = "insertDecls" => DeclsOK(c.x)
  /\ c.c \in {"exists", "count"} => \E i \in DOMAIN Demo : c.x = Demo[i] /\ c.t = Demo[i].name
CallsOK(s)  == List(s) /\ \A c \in ToSet(s) : CallOK(c)
ResultOK(r) == r.ok \in BOOLEAN /\ CallsOK(r.todo) /\ GotOK(r.got) /\ (r.ok \/ r.todo = <<>>)

JobOK(j) == /\ j.t \in TableNames \cup {NoTable}
            /\ j.do \in {"none", "seed", "ensure", "describe", "scan", "insert", "update", "delete",
                         "create", "alter", "drop"}

GateOK(g) ==
  /\ up[g] \in {"down", "starting", "serving"}
  /\ JobOK(job[g]) /\ CallsOK(todo[g]) /\ GotOK(got[g])
  /\ up[g] = "down" => job[g] = Nothing
  /\ job[g] = Nothing => todo[g] = <<>>

TypeInv ==
  /\ kind \in Kinds /\ StoreOK(Now)
  /\ DOMAIN up = Gates /\ DOMAIN job = Gates /\ DOMAIN todo = Gates /\ DOMAIN got = Gates
  /\ DOMAIN seen = Gates /\ DOMAIN always = Gates
  /\ DOMAIN known = Gates /\ DOMAIN full = Gates /\ DOMAIN made = Gates
  /\ \A g \in Gates : GateOK(g)

-----------------------------------------------------------------------------
(* What a call of the store comes to: the store is as the call leaves it,  *)
(* or as it was; the gateway goes on in one of two ways.                   *)

Outcome(g, s, r) ==
  /\ coll' = s.coll /\ decls' = s.decls /\ declIndex' = s.index
  /\ todo' = [todo EXCEPT ![g] = r.todo] /\ got' = [got EXCEPT ![g] = r.got]
  /\ job' = IF r.ok THEN job ELSE [job EXCEPT ![g] = Nothing]
  /\ up' = IF ~r.ok /\ Starts(g) THEN [up EXCEPT ![g] = "down"] ELSE up
  /\ made' = [made EXCEPT ![g] =
       IF r.ok /\ Starts(g) THEN @ \cup (DOMAIN s.coll \ DOMAIN coll) ELSE {}]
  /\ kind' = kind /\ demo' = demo /\ crashes' = crashes /\ jobs' = jobs

History(g, missed) ==
  /\ seen' = [x \in Gates |-> IF job'[x].do \in {"describe", "scan"} THEN Both(seen[x], Moment') ELSE NoMoment]
  /\ always' = [x \in Gates |-> IF job'[x].do \in {"describe", "scan"}
                                THEN (always[x] \cap Listed') \ (IF x = g THEN missed ELSE {}) ELSE {}]
  /\ known' = [x \in Gates |-> known[x] \cap ToSet(decls')]
  /\ full' = [x \in Gates |-> (full[x] \cap Filled') \ (IF x = g THEN missed ELSE {})]

(* answered; refused, or failed, done or not *)
LEMMA PerformOutcomes ==
  ASSUME NEW g \in Gates, NEW bad, NEW new, NEW on, NEW off, bad \in BOOLEAN, Perform(g, bad, new, on, off)
  PROVE  \/ Outcome(g, new, on) /\ History(g, {}) /\ ~bad /\ faults' = faults
         \/ Outcome(g, new, off) /\ History(g, {Cur(g).t}) /\ bad /\ faults' = faults
         \/ /\ \E s \in {new, Now} : Outcome(g, s, off)
            /\ History(g, {Cur(g).t}) /\ ~bad /\ faults' = faults + 1
<1> PICK done \in BOOLEAN, answered \in BOOLEAN :
      /\ answered => done /\ ~bad
      /\ bad => done
      /\ UNCHANGED <<kind, demo, crashes, jobs>>
      /\ LET r == IF answered THEN on ELSE off
             s == IF done THEN new ELSE Now
         IN /\ coll' = s.coll /\ decls' = s.decls /\ declIndex' = s.index
            /\ todo' = [todo EXCEPT ![g] = r.todo] /\ got' = [got EXCEPT ![g] = r.got]
            /\ job' = IF r.ok THEN job ELSE [job EXCEPT ![g] = Nothing]
            /\ up' = IF ~r.ok /\ Starts(g) THEN [up EXCEPT ![g] = "down"] ELSE up
            /\ made' = [made EXCEPT ![g] =
                 IF r.ok /\ Starts(g) THEN @ \cup (DOMAIN s.coll \ DOMAIN coll) ELSE {}]
      /\ faults' = IF answered \/ bad THEN faults ELSE faults + 1
      /\ LET missed == IF answered THEN {} ELSE {Cur(g).t} IN
         /\ seen' = [x \in Gates |-> IF job'[x].do \in {"describe", "scan"} THEN Both(seen[x], Moment') ELSE NoMoment]
         /\ always' = [x \in Gates |-> IF job'[x].do \in {"describe", "scan"}
                                       THEN (always[x] \cap Listed') \ (IF x = g THEN missed ELSE {}) ELSE {}]
         /\ known' = [x \in Gates |-> known[x] \cap ToSet(decls')]
         /\ full' = [x \in Gates |-> (full[x] \cap Filled') \ (IF x = g THEN missed ELSE {})]
  BY DEF Perform
<1>1. CASE answered
  BY <1>1 DEF Outcome, History
<1>2. CASE ~answered /\ bad
  BY <1>2 DEF Outcome, History
<1>3. CASE ~answered /\ ~bad
  <2>1. CASE done
    BY <1>3, <2>1 DEF Outcome, History
  <2>2. CASE ~done
    BY <1>3, <2>2 DEF Outcome, History
  <2> QED BY <2>1, <2>2
<1> QED BY <1>1, <1>2, <1>3

LEMMA OutcomeTypes ==
  ASSUME TypeInv, NEW g \in Gates, NEW s, NEW r, NEW missed,
         up[g] # "down", todo[g] # <<>>,
         Outcome(g, s, r), History(g, missed), StoreOK(s), ResultOK(r)
  PROVE  TypeInv'
<1>1. kind' \in Kinds
  BY DEF Outcome, TypeInv
<1>2. StoreOK(Now)'
  BY DEF StoreOK, Now, Outcome, DeclsOK, DeclOK, CollOK
<1>3. /\ DOMAIN up' = Gates /\ DOMAIN job' = Gates /\ DOMAIN todo' = Gates /\ DOMAIN got' = Gates
      /\ DOMAIN made' = Gates
  BY DEF Outcome, TypeInv
<1>4. DOMAIN seen' = Gates /\ DOMAIN always' = Gates /\ DOMAIN known' = Gates /\ DOMAIN full' = Gates
  BY DEF History
<1>5. ASSUME NEW x \in Gates PROVE GateOK(x)'
  <2>1. GateOK(x)
    BY DEF TypeInv
  <2>2. CASE x # g
    <3>1. up'[x] = up[x] /\ job'[x] = job[x] /\ todo'[x] = todo[x] /\ got'[x] = got[x]
      BY <2>2 DEF Outcome, TypeInv
    <3> QED BY <2>1, <3>1 DEF GateOK
  <2>3. CASE x = g
    <3>1. todo'[g] = r.todo /\ got'[g] = r.got
      BY DEF Outcome, TypeInv
    <3>2. CASE r.ok
      <4>1. job' = job /\ up' = up
        BY <3>2 DEF Outcome
      <4>2. job[g] # Nothing
        BY <2>1, <2>3 DEF GateOK
      <4> QED BY <2>1, <2>3, <3>1, <4>1, <4>2 DEF GateOK, ResultOK
    <3>3. CASE ~r.ok
      <4>1. job'[g] = Nothing /\ todo'[g] = <<>> /\ up'[g] \in {up[g], "down"}
        BY <3>1, <3>3 DEF Outcome, TypeInv, ResultOK
      <4>2. JobOK(Nothing)
        BY DEF JobOK, Nothing
      <4> QED BY <2>1, <2>3, <3>1, <4>1, <4>2 DEF GateOK, ResultOK
    <3> QED BY <3>2, <3>3 DEF ResultOK
  <2> QED BY <2>2, <2>3
<1> QED BY <1>1, <1>2, <1>3, <1>4, <1>5 DEF TypeInv

LEMMA PerformTypes ==
  ASSUME TypeInv, NEW g \in Gates, NEW bad \in BOOLEAN, NEW new, NEW on, NEW off,
         up[g] # "down", todo[g] # <<>>, Perform(g, bad, new, on, off),
         StoreOK(new), ResultOK(on), ResultOK(off)
  PROVE  TypeInv'
<1>1. StoreOK(Now)
  BY DEF TypeInv
<1>2. PICK s \in {new, Now}, r \in {on, off}, missed \in {{}, {Cur(g).t}} : Outcome(g, s, r) /\ History(g, missed)
  <2>1. \/ Outcome(g, new, on) /\ History(g, {})
        \/ Outcome(g, new, off) /\ History(g, {Cur(g).t})
        \/ \E s \in {new, Now} : Outcome(g, s, off) /\ History(g, {Cur(g).t})
    BY PerformOutcomes
  <2> QED BY <2>1
<1>3. StoreOK(s) /\ ResultOK(r)
  BY <1>1
<1> QED BY <1>2, <1>3, OutcomeTypes

-----------------------------------------------------------------------------
(* What the operators keep to the types *)

LEMMA TypeNames ==
  /\ \A k : KindToES(k) \in EsNames /\ KindToSQL(k) \in SqlNames
  /\ \A e : EsTypeToSQL(e) \in Types
  /\ \A n : SqlType(n) \in Types
  /\ \A v : BsonSQLType(v) \in SqlNames /\ BsonKind(v) \in Types /\ JsonKind(v) \in Types /\ Mapped(v) \in EsNames
<1>1. \A k : KindToES(k) \in EsNames
  BY DEF KindToES, EsNames
<1>2. \A k : KindToSQL(k) \in SqlNames
  BY DEF KindToSQL, SqlNames
<1>3. \A e : EsTypeToSQL(e) \in Types
  BY DEF EsTypeToSQL, Types
<1>4. \A n : SqlType(n) \in Types
  BY DEF SqlType, Types
<1>5. \A v : BsonSQLType(v) \in SqlNames
  BY DEF BsonSQLType, SqlNames
<1>6. \A v : BsonKind(v) \in Types
  BY DEF BsonKind, Types
<1>7. \A v : JsonKind(v) \in Types
  BY DEF JsonKind, Types
<1>8. \A v : Mapped(v) \in EsNames
  BY DEF Mapped, EsNames
<1> QED BY <1>1, <1>2, <1>3, <1>4, <1>5, <1>6, <1>7, <1>8

(* a collection with other fields, or other documents *)
LEMMA RecordFields ==
  ASSUME NEW c, c = [fields |-> c.fields, docs |-> c.docs], NEW x
  PROVE  /\ [c EXCEPT !.fields = x] = [fields |-> x, docs |-> c.docs]
         /\ [c EXCEPT !.docs = x] = [fields |-> c.fields, docs |-> x]
<1>1. DOMAIN c = {"fields", "docs"}
  OBVIOUS
<1>2. [c EXCEPT !.fields = x] = [k \in DOMAIN c |-> IF k = "fields" THEN x ELSE c[k]]
  BY Zenon
<1>3. [c EXCEPT !.docs = x] = [k \in DOMAIN c |-> IF k = "docs" THEN x ELSE c[k]]
  BY Zenon
<1> QED BY <1>1, <1>2, <1>3

LEMMA DeclFields ==
  ASSUME NEW d, d = [table |-> d.table, cols |-> d.cols, key |-> d.key, again |-> d.again], NEW x, NEW y
  PROVE  [d EXCEPT !.cols = x, !.again = y] = [table |-> d.table, cols |-> x, key |-> d.key, again |-> y]
<1> DEFINE e == [d EXCEPT !.cols = x]
<1>1. DOMAIN d = {"table", "cols", "key", "again"}
  BY Zenon
<1>2. e = [k \in DOMAIN d |-> IF k = "cols" THEN x ELSE d[k]]
  BY Zenon
<1>3. DOMAIN e = DOMAIN d
  BY <1>2
<1>4. [e EXCEPT !.again = y] = [k \in DOMAIN d |-> IF k = "again" THEN y ELSE e[k]]
  BY <1>3, Zenon
<1>5. [d EXCEPT !.cols = x, !.again = y] = [e EXCEPT !.again = y]
  OBVIOUS
<1> QED BY <1>1, <1>2, <1>4, <1>5

LEMMA EmptyFields == \A S : Fields(Empty, S)
  BY DEF Fields, Empty

LEMMA ExtendedFields ==
  ASSUME NEW S, NEW f, NEW g, Fields(f, S), Fields(g, S)
  PROVE  Fields(Extended(f, g), S)
  BY DEF Fields, Extended

LEMMA LearnFields ==
  ASSUME NEW m, NEW at, Fields(m, EsNames)
  PROVE  Fields(Learn(m, at), EsNames)
<1>1. Fields([f \in DOMAIN at |-> Mapped(at[f])], EsNames)
  BY TypeNames DEF Fields
<1> QED BY <1>1, ExtendedFields DEF Learn

(* the store with one collection changed, or one gone *)
LEMMA SetCollOK ==
  ASSUME TypeInv, NEW t \in TableNames, NEW c, CollOK(c)
  PROVE  StoreOK(SetColl(t, c))
  BY DEF TypeInv, StoreOK, SetColl, Now

LEMMA HolderOK ==
  ASSUME TypeInv, NEW t
  PROVE  CollOK(Holder(t))
<1>1. CASE There(t)
  BY <1>1 DEF TypeInv, StoreOK, Now, Holder, There
<1>2. CASE ~There(t)
  BY <1>2, EmptyFields DEF Holder, NewColl, CollOK
<1> QED BY <1>1, <1>2

LEMMA NewCollOK ==
  ASSUME NEW m, Fields(m, EsNames)
  PROVE  CollOK(NewColl(m))
  BY DEF NewColl, CollOK

LEMMA NowOK == TypeInv => StoreOK(Now)
  BY DEF TypeInv

LEMMA SetDeclsOK ==
  ASSUME TypeInv, NEW ds, DeclsOK(ds)
  PROVE  StoreOK(SetDecls(ds))
  BY DEF TypeInv, StoreOK, SetDecls, Now

(* the first of a set of numbers *)
LEMMA FirstOfNumbers ==
  ASSUME NEW S \in SUBSET Nat, S # {}
  PROVE  Min(S) \in S /\ \A n \in S : Min(S) <= n
<1>1. \E m \in S : \A n \in S : m <= n
  <2> DEFINE R == OpToRel(<, Nat)
  <2>1. PICK m \in S : \A n \in S : ~(<<n, m>> \in R)
    BY NatLessThanWellFounded, WFMin
  <2>2. \A n \in S : n < m => <<n, m>> \in R
    BY DEF OpToRel
  <2>3. \A n \in S : ~(n < m) /\ n \in Nat /\ m \in Nat
    BY <2>1, <2>2
  <2>4. \A n \in S : m <= n
    BY <2>3
  <2> QED BY <2>4
<1> QED BY <1>1 DEF Min

(* the declaration a table has *)
LEMMA FirstDecl ==
  ASSUME TypeInv, NEW t, Declared(t)
  PROVE  /\ Min(At(t)) \in 1..Len(decls) /\ decls[Min(At(t))] = TheDecl(t)
         /\ TheDecl(t).table = t /\ TheDecl(t) \in ToSet(decls) /\ DeclOK(TheDecl(t))
<1>1. List(decls) /\ \A d \in ToSet(decls) : DeclOK(d)
  BY DEF TypeInv, StoreOK, Now, DeclsOK
<1>2. Len(decls) \in Nat /\ DOMAIN decls = 1..Len(decls)
  BY <1>1, ListElems
<1>3. At(t) \subseteq Nat /\ At(t) # {} /\ At(t) \subseteq DOMAIN decls
  BY <1>2 DEF At, Declared
<1>4. Min(At(t)) \in At(t)
  BY <1>3, FirstOfNumbers
<1>5. TheDecl(t) \in ToSet(decls)
  BY <1>3, <1>4 DEF TheDecl, ToSet
<1> QED BY <1>1, <1>2, <1>3, <1>4, <1>5 DEF TheDecl, At

-----------------------------------------------------------------------------
(* How a gateway goes on *)

LEMMA CurOK ==
  ASSUME TypeInv, NEW g \in Gates, NEW c, Does(g, c)
  PROVE  /\ up[g] # "down" /\ todo[g] # <<>> /\ job[g] # Nothing
         /\ Cur(g) \in ToSet(todo[g]) /\ Cur(g).c = c /\ CallOK(Cur(g))
         /\ CallsOK(Tail(todo[g])) /\ GotOK(got[g]) /\ JobOK(job[g])
         /\ (c \notin NoTableCalls => Cur(g).t \in TableNames)
<1>1. up[g] # "down" /\ todo[g] # <<>> /\ Cur(g).c = c
  BY DEF Does
<1>2. GateOK(g) /\ CallsOK(todo[g])
  BY DEF TypeInv, GateOK
<1>3. /\ List(Tail(todo[g]))
      /\ Cur(g) \in ToSet(todo[g]) /\ ToSet(Tail(todo[g])) \subseteq ToSet(todo[g])
  BY <1>1, <1>2, ListTail DEF CallsOK, Cur
<1>4. CallOK(Cur(g)) /\ CallsOK(Tail(todo[g]))
  BY <1>2, <1>3 DEF CallsOK
<1> QED BY <1>1, <1>2, <1>3, <1>4 DEF GateOK, CallOK

LEMMA NoCalls == CallsOK(<<>>)
  BY NoList DEF CallsOK

LEMMA OneCall ==
  ASSUME NEW c, CallOK(c)
  PROVE  CallsOK(<<c>>)
  BY OneList DEF CallsOK

LEMMA TwoCalls ==
  ASSUME NEW c, NEW d, CallOK(c), CallOK(d)
  PROVE  CallsOK(<<c, d>>)
  BY TwoList DEF CallsOK

LEMMA MoreCalls ==
  ASSUME NEW s, NEW t, CallsOK(s), CallsOK(t)
  PROVE  CallsOK(s \o t)
  BY ListConcat DEF CallsOK

(* a call for each of a list *)
LEMMA FnCalls ==
  ASSUME NEW n \in Nat, NEW s, DOMAIN s = 1..n, s = [i \in 1..n |-> s[i]], \A i \in 1..n : CallOK(s[i])
  PROVE  CallsOK(s)
<1>1. List(s)
  BY FnList
<1> QED BY <1>1 DEF CallsOK, ToSet

LEMMA OnToOK ==
  ASSUME TypeInv, NEW g \in Gates, todo[g] # <<>>, NEW calls, CallsOK(calls)
  PROVE  ResultOK(OnTo(g, calls)) /\ OnTo(g, calls) = [ok |-> TRUE, todo |-> calls \o Tail(todo[g]), got |-> got[g]]
<1>1. CallsOK(todo[g]) /\ GotOK(got[g])
  BY DEF TypeInv, GateOK
<1>2. CallsOK(Tail(todo[g]))
  BY <1>1, ListTail DEF CallsOK
<1>3. CallsOK(calls \o Tail(todo[g]))
  BY <1>2, MoreCalls
<1> QED BY <1>1, <1>3 DEF ResultOK, OnTo

LEMMA WithOK ==
  ASSUME TypeInv, NEW g \in Gates, todo[g] # <<>>, NEW calls, CallsOK(calls), NEW xs, GotOK(xs)
  PROVE  LET r == With(OnTo(g, calls), xs) IN
         ResultOK(r) /\ r.ok /\ r.todo = calls \o Tail(todo[g]) /\ r.got = got[g] \cup xs
<1> DEFINE r == With(OnTo(g, calls), xs)
<1>1. ResultOK(OnTo(g, calls)) /\ GotOK(got[g])
  BY OnToOK DEF TypeInv, GateOK
<1>2. r.ok = TRUE /\ r.todo = calls \o Tail(todo[g]) /\ r.got = got[g] \cup xs
  BY DEF With, OnTo
<1>3. CallsOK(r.todo)
  BY <1>1, <1>2 DEF ResultOK, OnTo
<1>4. GotOK(r.got)
  BY <1>1, <1>2 DEF GotOK
<1> QED BY <1>2, <1>3, <1>4 DEF ResultOK

LEMMA FailOK == ResultOK(Fail)
  BY NoCalls DEF ResultOK, Fail, GotOK

LEMMA WriteCatalogOK ==
  ASSUME NEW d, DeclOK(d)
  PROVE  CallsOK(WriteCatalog(d))
<1>1. CallOK(Call("putDecl", d.table, d)) /\ CallOK(Call("declIndexExists", d.table, d))
  BY DEF CallOK, Call, DeclOK
<1> QED BY <1>1, OneCall, TwoCalls DEF WriteCatalog

LEMMA KindToESFields == \A cols : Fields([c \in DOMAIN cols |-> KindToES(cols[c])], EsNames)
  BY TypeNames DEF Fields

LEMMA KindToSQLFields == \A cols : Fields([c \in DOMAIN cols |-> KindToSQL(cols[c])], SqlNames)
  BY TypeNames DEF Fields

LEMMA DeclarationOK ==
  ASSUME NEW t \in TableNames, NEW cols, NEW key, Fields(cols, SqlNames)
  PROVE  DeclOK(Declaration(t, cols, key))
<1>1. List(<<>>) /\ \A x \in ToSet(<<>>) : Fields(x, SqlNames)
  BY NoList
<1> QED BY <1>1 DEF DeclOK, Declaration

LEMMA PushedOK ==
  ASSUME NEW d, DeclOK(d), NEW cols, Fields(cols, SqlNames)
  PROVE  DeclOK(Pushed(d, cols)) /\ Pushed(d, cols).table = d.table
<1> DEFINE twice == DOMAIN cols \cap DOMAIN d.cols
           extra == [c \in twice |-> cols[c]]
           again == IF twice = {} THEN d.again ELSE Append(d.again, extra)
           all == Extended(d.cols, cols)
<1>1. Pushed(d, cols) = [d EXCEPT !.cols = all, !.again = again]
  BY DEF Pushed
<1>2. Fields(all, SqlNames) /\ Fields(extra, SqlNames)
  BY ExtendedFields DEF DeclOK, Fields
<1>3. List(again) /\ \A x \in ToSet(again) : Fields(x, SqlNames)
  <2> HIDE DEF extra
  <2> QED BY <1>2, ListAppend DEF DeclOK
<1> HIDE DEF all, again
<1>4. Pushed(d, cols) = [table |-> d.table, cols |-> all, key |-> d.key, again |-> again]
  BY <1>1, DeclFields DEF DeclOK
<1> QED BY <1>2, <1>3, <1>4 DEF DeclOK

LEMMA CreateTableOK ==
  ASSUME NEW t \in TableNames, NEW cols, NEW key
  PROVE  CallsOK(CreateTable(t, cols, key))
<1>1. CallOK(Call("create", t, Empty)) /\ CallOK(Call("create", t, [c \in DOMAIN cols |-> KindToES(cols[c])]))
  BY KindToESFields, EmptyFields DEF CallOK, Call
<1>2. DeclOK(Declaration(t, Empty, key)) /\ DeclOK(Declaration(t, [c \in DOMAIN cols |-> KindToSQL(cols[c])], key))
  BY KindToSQLFields, EmptyFields, DeclarationOK
<1>3. CASE kind = "hybrid"
  BY <1>1, <1>2, <1>3, OneCall, WriteCatalogOK, MoreCalls DEF CreateTable
<1>4. CASE kind = "declared"
  BY <1>1, <1>2, <1>4, OneCall, WriteCatalogOK, MoreCalls DEF CreateTable
<1>5. CASE kind \notin {"hybrid", "declared"}
  BY <1>1, <1>5, OneCall DEF CreateTable
<1> QED BY <1>3, <1>4, <1>5

(* a call that carries nothing but its table *)
LEMMA PlainCall ==
  ASSUME NEW t \in TableNames, NEW x,
         NEW c \in {"drop", "deleteDecl", "index", "insertMany", "updateWhere", "deleteWhere",
                    "search", "getDecl", "mapping", "sample", "ensure", "declIndexExists"}
  PROVE  CallOK(Call(c, t, x))
  BY DEF CallOK, Call

LEMMA NoTableCall ==
  ASSUME NEW t, NEW x, NEW c \in NoTableCalls, c # "insertDecls"
  PROVE  CallOK(Call(c, t, x))
  BY DEF CallOK, Call, NoTableCalls

LEMMA IndexCallsOK ==
  ASSUME NEW t \in TableNames, NEW xs, List(xs)
  PROVE  CallsOK(Calls("index", t, xs))
<1> DEFINE s == Calls("index", t, xs)
<1>1. Len(xs) \in Nat /\ DOMAIN xs = 1..Len(xs)
  BY ListElems
<1>2. DOMAIN s = 1..Len(xs) /\ s = [i \in 1..Len(xs) |-> s[i]] /\ \A i \in 1..Len(xs) : s[i] = Call("index", t, xs[i])
  BY <1>1 DEF Calls
<1>3. \A i \in 1..Len(xs) : CallOK(s[i])
  BY <1>2, PlainCall
<1>4. CallsOK(s)
  <2> HIDE DEF s
  <2> QED BY <1>1, <1>2, <1>3, FnCalls
<1> QED BY <1>4

-----------------------------------------------------------------------------
(* Every call keeps the types *)

LEMMA CreateCollTypes ==
  ASSUME TypeInv, NEW g \in Gates, CreateColl(g)
  PROVE  TypeInv'
<1> DEFINE c == Cur(g)
           new == IF There(c.t) THEN Now ELSE SetColl(c.t, NewColl(c.x))
<1>1. Does(g, "create") /\ Perform(g, There(c.t), new, OnTo(g, <<>>), Fail)
  BY DEF CreateColl
<1>2. c.t \in TableNames /\ Fields(c.x, EsNames)
  BY <1>1, CurOK DEF CallOK, NoTableCalls
<1>3. StoreOK(new)
  BY <1>2, NowOK, NewCollOK, SetCollOK
<1>4. There(c.t) \in BOOLEAN
  BY DEF There
<1> QED BY <1>1, <1>3, <1>4, CurOK, NoCalls, OnToOK, FailOK, PerformTypes

LEMMA PutMappingTypes ==
  ASSUME TypeInv, NEW g \in Gates, PutMapping(g)
  PROVE  TypeInv'
<1> DEFINE c == Cur(g)
           bad == ~There(c.t) \/ \E f \in DOMAIN c.x \cap DOMAIN Holder(c.t).fields : c.x[f] # Holder(c.t).fields[f]
           new == IF bad THEN Now ELSE SetColl(c.t, [coll[c.t] EXCEPT !.fields = Extended(@, c.x)])
<1>1. Does(g, "putMapping") /\ Perform(g, bad, new, OnTo(g, <<>>), Fail)
  BY DEF PutMapping
<1>2. c.t \in TableNames /\ Fields(c.x, EsNames)
  BY <1>1, CurOK DEF CallOK, NoTableCalls
<1>3. StoreOK(new)
  <2>1. CASE bad
    BY <2>1, NowOK
  <2>2. CASE ~bad
    <3> DEFINE x == coll[c.t]
               y == [x EXCEPT !.fields = Extended(@, c.x)]
    <3>1. CollOK(x)
      BY <2>2 DEF TypeInv, StoreOK, Now, There
    <3>2. Fields(Extended(x.fields, c.x), EsNames)
      BY <3>1, <1>2, ExtendedFields DEF CollOK
    <3>3. y = [fields |-> Extended(x.fields, c.x), docs |-> x.docs]
      <4> HIDE DEF x
      <4> QED BY <3>1, RecordFields DEF CollOK
    <3>4. CollOK(y)
      BY <3>2, <3>3 DEF CollOK
    <3> QED BY <2>2, <3>4, <1>2, SetCollOK
  <2> QED BY <2>1, <2>2
<1>4. bad \in BOOLEAN
  OBVIOUS
<1> HIDE DEF bad, new
<1> QED BY <1>1, <1>3, <1>4, CurOK, NoCalls, OnToOK, FailOK, PerformTypes

LEMMA DropCollTypes ==
  ASSUME TypeInv, NEW g \in Gates, DropColl(g)
  PROVE  TypeInv'
<1> DEFINE t == Cur(g).t
           bad == kind = "hits" /\ ~There(t)
           new == [Now EXCEPT !.coll = [u \in DOMAIN @ \ {t} |-> @[u]]]
<1>1. PICK off \in {Fail, OnTo(g, <<>>)} : Perform(g, bad, new, OnTo(g, <<>>), off)
  BY DEF DropColl
<1>2. Does(g, "drop")
  BY DEF DropColl
<1>3. StoreOK(new)
  BY DEF TypeInv, StoreOK, Now
<1>4. bad \in BOOLEAN
  OBVIOUS
<1>5. ResultOK(OnTo(g, <<>>)) /\ ResultOK(off)
  BY <1>2, CurOK, NoCalls, OnToOK, FailOK
<1> HIDE DEF bad, new
<1> QED BY <1>1, <1>2, <1>3, <1>4, <1>5, CurOK, PerformTypes

LEMMA RemovedOK ==
  ASSUME NEW ds, DeclsOK(ds), NEW i \in 1..Len(ds)
  PROVE  DeclsOK(RemoveAt(ds, i))
<1>1. List(ds) /\ Len(ds) \in Nat
  BY ListElems DEF DeclsOK
<1>2. RemoveAt(ds, i) \in Seq(ToSet(ds))
  <2> DEFINE S == ToSet(ds)
  <2>1. ds \in Seq(S)
    BY <1>1 DEF List
  <2> HIDE DEF S
  <2>2. SubSeq(ds, 1, i - 1) \in Seq(S) /\ SubSeq(ds, i + 1, Len(ds)) \in Seq(S)
    BY <2>1, <1>1
  <2>3. RemoveAt(ds, i) \in Seq(S)
    BY <2>2 DEF RemoveAt
  <2> QED BY <2>3 DEF S
<1> QED BY <1>2, ListIn DEF DeclsOK

LEMMA ReplacedOK ==
  ASSUME NEW ds, DeclsOK(ds), NEW i \in 1..Len(ds), NEW d, DeclOK(d)
  PROVE  DeclsOK(ReplaceAt(ds, i, d))
<1> DEFINE R == ToSet(ds) \cup {d}
           new == ReplaceAt(ds, i, d)
<1>1. new \in Seq(R)
  <2>1. ds \in Seq(ToSet(ds))
    BY DEF DeclsOK, List
  <2>2. ds \in Seq(R)
    BY <2>1
  <2> HIDE DEF R
  <2> QED BY <2>2 DEF R, ReplaceAt
<1>2. List(new) /\ ToSet(new) \subseteq R
  <2> HIDE DEF R, new
  <2> QED BY <1>1, ListIn
<1> QED BY <1>2 DEF DeclsOK

LEMMA DeleteDeclTypes ==
  ASSUME TypeInv, NEW g \in Gates, DeleteDecl(g)
  PROVE  TypeInv'
<1> DEFINE t == Cur(g).t
           new == IF Declared(t) THEN [Now EXCEPT !.decls = RemoveAt(decls, Min(At(t)))] ELSE Now
<1>1. PICK off \in {Fail, OnTo(g, <<>>)} : Perform(g, FALSE, new, OnTo(g, <<>>), off)
  BY DEF DeleteDecl
<1>2. Does(g, "deleteDecl")
  BY DEF DeleteDecl
<1>3. StoreOK(new)
  <2>1. CASE Declared(t)
    <3>1. Min(At(t)) \in 1..Len(decls)
      BY <2>1, FirstDecl
    <3>2. DeclsOK(RemoveAt(decls, Min(At(t))))
      BY <3>1, RemovedOK DEF TypeInv, StoreOK, Now
    <3>3. decls # <<>>
      BY <3>1
    <3> QED BY <2>1, <3>2, <3>3 DEF TypeInv, StoreOK, Now
  <2>2. CASE ~Declared(t)
    BY <2>2, NowOK
  <2> QED BY <2>1, <2>2
<1>5. ResultOK(OnTo(g, <<>>)) /\ ResultOK(off)
  BY <1>2, CurOK, NoCalls, OnToOK, FailOK
<1> HIDE DEF new
<1> QED BY <1>1, <1>2, <1>3, <1>5, CurOK, PerformTypes

LEMMA IndexDocTypes ==
  ASSUME TypeInv, NEW g \in Gates, IndexDoc(g)
  PROVE  TypeInv'
<1> DEFINE c == Cur(g)
           new == IF Unfit(c.t, c.x) THEN Now ELSE SetColl(c.t, Stored(Holder(c.t), c.x))
<1>1. Does(g, "index") /\ Perform(g, Unfit(c.t, c.x), new, OnTo(g, <<>>), Fail)
  BY DEF IndexDoc
<1>2. c.t \in TableNames
  BY <1>1, CurOK DEF NoTableCalls
<1>3. CollOK(Stored(Holder(c.t), c.x))
  <2>1. Fields(Learn(Holder(c.t).fields, c.x.at), EsNames)
    BY HolderOK, LearnFields DEF CollOK
  <2> QED BY <2>1 DEF Stored, CollOK
<1>4. StoreOK(new)
  BY <1>2, <1>3, NowOK, SetCollOK
<1>5. Unfit(c.t, c.x) \in BOOLEAN
  BY DEF Unfit
<1> HIDE DEF new
<1> QED BY <1>1, <1>4, <1>5, CurOK, NoCalls, OnToOK, FailOK, PerformTypes

LEMMA InsertManyTypes ==
  ASSUME TypeInv, NEW g \in Gates, InsertMany(g)
  PROVE  TypeInv'
<1> DEFINE c == Cur(g)
           after == InOrder(Holder(c.t), c.x)
           bad == Len(after.docs) < Len(Docs(c.t)) + Len(c.x)
<1>1. Does(g, "insertMany") /\ Perform(g, bad, SetColl(c.t, after), OnTo(g, <<>>), Fail)
  BY DEF InsertMany
<1>2. c.t \in TableNames
  BY <1>1, CurOK DEF NoTableCalls
<1>3. CollOK(after)
  <2> DEFINE h == Holder(c.t)
  <2>1. CollOK(h)
    BY HolderOK
  <2>2. PICK ds : after = [h EXCEPT !.docs = ds]
    BY DEF InOrder
  <2> HIDE DEF h, after
  <2>3. after = [fields |-> h.fields, docs |-> ds]
    BY <2>1, <2>2, RecordFields DEF CollOK
  <2> QED BY <2>1, <2>3 DEF CollOK
<1>4. StoreOK(SetColl(c.t, after))
  <2> HIDE DEF after
  <2> QED BY <1>2, <1>3, SetCollOK
<1>5. bad \in BOOLEAN
  OBVIOUS
<1> HIDE DEF after, bad
<1> QED BY <1>1, <1>4, <1>5, CurOK, NoCalls, OnToOK, FailOK, PerformTypes

LEMMA UpdateWhereTypes ==
  ASSUME TypeInv, NEW g \in Gates, UpdateWhere(g)
  PROVE  TypeInv'
<1> DEFINE c == Cur(g)
           docs == Docs(c.t)
           hit == {i \in DOMAIN docs : PredsToQuery(c.x.where, docs[i])}
           after == [i \in DOMAIN docs |-> IF i \in hit THEN Assign(docs[i], c.x.set) ELSE docs[i]]
           bad == Elastic /\ (~There(c.t) \/ \E i \in hit : Unfit(c.t, after[i]))
           fields == IF Elastic /\ hit # {} THEN Learn(Holder(c.t).fields, Assign([at |-> Empty], c.x.set).at)
                                            ELSE Holder(c.t).fields
           to == [fields |-> fields, docs |-> SubSeq(after, 1, Len(after))]
           new == IF bad \/ ~There(c.t) THEN Now ELSE SetColl(c.t, to)
<1>1. Does(g, "updateWhere") /\ Perform(g, bad, new, OnTo(g, <<>>), Fail)
  BY DEF UpdateWhere
<1>2. c.t \in TableNames
  BY <1>1, CurOK DEF NoTableCalls
<1>3. Fields(fields, EsNames)
  <2> HIDE DEF hit
  <2> QED BY HolderOK, LearnFields DEF CollOK
<1>4. CollOK(to)
  <2> HIDE DEF fields, after
  <2> QED BY <1>3 DEF CollOK
<1>5. StoreOK(new)
  <2> HIDE DEF to, bad
  <2> QED BY <1>2, <1>4, NowOK, SetCollOK
<1>6. bad \in BOOLEAN
  OBVIOUS
<1> HIDE DEF new, bad
<1> QED BY <1>1, <1>5, <1>6, CurOK, NoCalls, OnToOK, FailOK, PerformTypes

LEMMA DeleteWhereTypes ==
  ASSUME TypeInv, NEW g \in Gates, DeleteWhere(g)
  PROVE  TypeInv'
<1> DEFINE c == Cur(g)
           left == SelectSeq(Docs(c.t), LAMBDA d : ~PredsToQuery(c.x.where, d))
           bad == Elastic /\ ~There(c.t)
           new == IF ~There(c.t) THEN Now ELSE SetColl(c.t, [coll[c.t] EXCEPT !.docs = left])
<1>1. Does(g, "deleteWhere") /\ Perform(g, bad, new, OnTo(g, <<>>), Fail)
  BY DEF DeleteWhere
<1>2. c.t \in TableNames
  BY <1>1, CurOK DEF NoTableCalls
<1>3. StoreOK(new)
  <2> HIDE DEF left
  <2>1. CASE ~There(c.t)
    BY <2>1, NowOK
  <2>2. CASE There(c.t)
    <3> DEFINE x == coll[c.t]
    <3>1. CollOK(x)
      BY <2>2 DEF TypeInv, StoreOK, Now, There
    <3>2. CollOK([x EXCEPT !.docs = left])
      <4> HIDE DEF x
      <4>1. [x EXCEPT !.docs = left] = [fields |-> x.fields, docs |-> left]
        BY <3>1, RecordFields DEF CollOK
      <4> QED BY <3>1, <4>1 DEF CollOK
    <3> QED BY <2>2, <3>2, <1>2, SetCollOK
  <2> QED BY <2>1, <2>2
<1>4. bad \in BOOLEAN
  OBVIOUS
<1> HIDE DEF new, bad
<1> QED BY <1>1, <1>3, <1>4, CurOK, NoCalls, OnToOK, FailOK, PerformTypes

-----------------------------------------------------------------------------
(* What the store lists, each once *)

LEMMA ListingIs ==
  ASSUME NEW S, IsFiniteSet(S)
  PROVE  List(Listing(S)) /\ ToSet(Listing(S)) = S
<1> DEFINE n == Cardinality(S)
           f == SetToSeq(S)
<1>1. n \in Nat /\ \E b : b \in Bijection(1..n, S)
  BY FS_CardinalityType DEF ExistsBijection
<1>2. \E b \in [1..n -> S] : IsInjective(b)
  BY <1>1 DEF Bijection, Injection
<1>3. f \in [1..n -> S] /\ IsInjective(f)
  BY <1>2 DEF SetToSeq
<1>4. IsFiniteSet(1..n) /\ Cardinality(1..n) = n
  BY <1>1, FS_Interval
<1>5. f \in Surjection(1..n, S)
  <2>1. f \in Injection(1..n, S)
    BY <1>3 DEF Injection
  <2> HIDE DEF f
  <2> QED BY <2>1, <1>4, FS_Injection
<1>6. List(f) /\ ToSet(f) \subseteq S
  <2> HIDE DEF f, n
  <2>1. f \in Seq(S)
    BY <1>1, <1>3
  <2> QED BY <2>1, ListIn
<1>7. S \subseteq ToSet(f)
  BY <1>3, <1>5 DEF Surjection, ToSet
<1> QED BY <1>6, <1>7 DEF Listing

LEMMA TablesFinite ==
  ASSUME TypeInv
  PROVE  IsFiniteSet({t \in TableNames : There(t)})
  BY GatewaysAssumption, FS_Subset

LEMMA EachOK ==
  ASSUME NEW c \in {"mapping", "sample"}, NEW ts, List(ts), ToSet(ts) \subseteq TableNames
  PROVE  CallsOK(Each(c, ts)) /\ ToSet(Each(c, ts)) = {Call(c, t, Empty) : t \in ToSet(ts)}
<1> DEFINE s == Each(c, ts)
<1>1. Len(ts) \in Nat /\ DOMAIN ts = 1..Len(ts) /\ \A i \in 1..Len(ts) : ts[i] \in TableNames
  BY ListElems
<1>2. DOMAIN s = 1..Len(ts) /\ s = [i \in 1..Len(ts) |-> s[i]] /\ \A i \in 1..Len(ts) : s[i] = Call(c, ts[i], Empty)
  BY <1>1 DEF Each
<1>3. \A i \in 1..Len(ts) : CallOK(s[i])
  BY <1>1, <1>2, PlainCall
<1>4. CallsOK(s)
  <2> HIDE DEF s
  <2> QED BY <1>1, <1>2, <1>3, FnCalls
<1>5. ToSet(s) = {Call(c, t, Empty) : t \in ToSet(ts)}
  <2> HIDE DEF s
  <2> QED BY <1>1, <1>2 DEF ToSet
<1> QED BY <1>4, <1>5

(* the columns a gateway answers *)
LEMMA ColumnsOK ==
  /\ \A t : Fields(MappingColumns(t), Types)
  /\ \A docs : Fields(ColumnsFromHits(docs), Types) /\ Fields(InferColumns(docs), Types)
  /\ \A t : Fields(ColumnsNow(t), Types)
<1>1. \A t : Fields(MappingColumns(t), Types)
  BY TypeNames DEF Fields, MappingColumns
<1>2. \A docs : Fields(ColumnsFromHits(docs), Types)
  BY TypeNames DEF Fields, ColumnsFromHits, Types
<1>3. \A docs : Fields(InferColumns(docs), Types)
  BY TypeNames DEF Fields, InferColumns, Types
<1>4. \A t : Fields(ColumnsNow(t), Types)
  BY <1>1, <1>2, <1>3 DEF ColumnsNow
<1> QED BY <1>1, <1>2, <1>3, <1>4

LEMMA ToTableOK ==
  ASSUME NEW d, DeclOK(d)
  PROVE  ToTable(d).name \in TableNames /\ Fields(ToTable(d).cols, Types)
  BY TypeNames DEF ToTable, SqlTypes, Fields, DeclOK

LEMMA InferCatalogDocOK ==
  ASSUME NEW t \in TableNames, NEW docs
  PROVE  DeclOK(InferCatalogDoc(t, docs))
<1> DEFINE fs == FieldsOf(docs)
           cols == [f \in IF "id" \in fs THEN fs ELSE fs \cup {"_id"} |->
                      IF f = "_id" THEN "varchar" ELSE BsonSQLType(FirstOf(docs, f))]
<1>1. Fields(cols, SqlNames)
  BY TypeNames DEF Fields, SqlNames
<1>2. InferCatalogDoc(t, docs) = Declaration(t, cols, IF "id" \in fs THEN {"id"} ELSE {"_id"})
  BY DEF InferCatalogDoc
<1> HIDE DEF cols
<1> QED BY <1>1, <1>2, DeclarationOK

LEMMA StaticSchemaOK == GotOK(StaticSchema)
<1>1. ASSUME NEW i \in DOMAIN Demo
      PROVE  Demo[i].name \in TableNames /\ Fields(Demo[i].cols, Types)
  BY DataAssumption DEF Fields
<1> QED BY <1>1 DEF GotOK, StaticSchema

LEMMA DemoList == Len(Demo) \in Nat /\ DOMAIN Demo = 1..Len(Demo) /\ List(Demo)
  BY DataAssumption, ListElems

(* what only reads keeps the types, if what is read is of the types *)
LEMMA ReadsTypes ==
  ASSUME TypeInv, NEW g \in Gates, NEW c, Does(g, c), NEW bad \in BOOLEAN, NEW on, NEW off,
         Reads(g, bad, on, off), ResultOK(on), ResultOK(off)
  PROVE  TypeInv'
  BY CurOK, NowOK, PerformTypes DEF Reads

LEMMA SearchTypes ==
  ASSUME TypeInv, NEW g \in Gates, Search(g)
  PROVE  TypeInv'
<1> DEFINE t == Cur(g).t
           cols == CASE kind = "hits"   -> {[name |-> t, cols |-> ColumnsFromHits(FirstDocs(t, ScanSize)), key |-> {}]}
                     [] kind = "static" -> {x \in StaticSchema : x.name = t}
                     [] OTHER           -> {}
           bad == Elastic /\ ~There(t)
<1>1. Does(g, "search") /\ Reads(g, bad, With(OnTo(g, <<>>), cols), Fail)
  BY DEF Search
<1>2. t \in TableNames /\ todo[g] # <<>>
  BY <1>1, CurOK DEF NoTableCalls
<1>3. GotOK(cols)
  <2>1. CASE kind = "hits"
    BY <2>1, <1>2, ColumnsOK DEF GotOK
  <2>2. CASE kind = "static"
    BY <2>2, StaticSchemaOK DEF GotOK
  <2>3. CASE kind \notin {"hits", "static"}
    BY <2>3 DEF GotOK
  <2> QED BY <2>1, <2>2, <2>3
<1>4. bad \in BOOLEAN
  OBVIOUS
<1> HIDE DEF cols, bad
<1>5. ResultOK(With(OnTo(g, <<>>), cols))
  BY <1>2, <1>3, NoCalls, WithOK
<1> QED BY <1>1, <1>4, <1>5, FailOK, ReadsTypes

LEMMA ReadDeclsTypes ==
  ASSUME TypeInv, NEW g \in Gates, ReadDecls(g)
  PROVE  TypeInv'
<1> DEFINE names == IF decls = <<>> THEN <<Call("listNames", NoTable, Empty)>> ELSE <<>>
           maps == [i \in DOMAIN decls |-> Call("mapping", decls[i].table, decls[i].key)]
           tabs == {ToTable(decls[i]) : i \in DOMAIN decls}
           on == IF Starts(g) THEN OnTo(g, names)
                 ELSE IF kind = "hybrid" THEN OnTo(g, maps) ELSE With(OnTo(g, <<>>), tabs)
<1>1. Does(g, "readDecls") /\ Reads(g, FALSE, on, Fail)
  BY DEF ReadDecls
<1>2. todo[g] # <<>>
  BY <1>1, CurOK
<1>3. Len(decls) \in Nat /\ DOMAIN decls = 1..Len(decls) /\ \A i \in 1..Len(decls) : DeclOK(decls[i])
  BY ListElems DEF TypeInv, StoreOK, Now, DeclsOK
<1>4. CallsOK(names)
  BY NoCalls, OneCall, NoTableCall DEF NoTableCalls
<1>5. CallsOK(maps)
  <2>1. /\ DOMAIN maps = 1..Len(decls) /\ maps = [i \in 1..Len(decls) |-> maps[i]]
        /\ \A i \in 1..Len(decls) : maps[i] = Call("mapping", decls[i].table, decls[i].key)
    BY <1>3
  <2>2. \A i \in 1..Len(decls) : CallOK(maps[i])
    BY <1>3, <2>1, PlainCall DEF DeclOK
  <2> HIDE DEF maps
  <2> QED BY <1>3, <2>1, <2>2, FnCalls
<1>6. GotOK(tabs)
  BY <1>3, ToTableOK DEF GotOK
<1>7. ResultOK(on)
  <2> HIDE DEF names, maps, tabs
  <2> QED BY <1>2, <1>4, <1>5, <1>6, NoCalls, OnToOK, WithOK
<1> HIDE DEF on
<1> QED BY <1>1, <1>7, FailOK, ReadsTypes

LEMMA CountDeclsTypes ==
  ASSUME TypeInv, NEW g \in Gates, CountDecls(g)
  PROVE  TypeInv'
<1> DEFINE one(i) == Declaration(Demo[i].name, [c \in DOMAIN Demo[i].cols |-> KindToSQL(Demo[i].cols[c])], Demo[i].key)
           all == [i \in DOMAIN Demo |-> one(i)]
           calls == IF job[g].do = "seed" THEN <<Call("insertDecls", NoTable, all)>>
                                          ELSE <<Call("listNames", NoTable, Empty)>>
           here == IF decls = <<>> THEN calls ELSE <<>>
<1>1. Does(g, "countDecls") /\ Reads(g, FALSE, OnTo(g, here), Fail)
  BY DEF CountDecls
<1>2. todo[g] # <<>>
  BY <1>1, CurOK
<1>3. DeclsOK(all)
  <2>1. \A i \in 1..Len(Demo) : DeclOK(one(i))
    BY DemoList, DataAssumption, KindToSQLFields, DeclarationOK
  <2> HIDE DEF one
  <2>2. DOMAIN all = 1..Len(Demo) /\ all = [i \in 1..Len(Demo) |-> all[i]] /\ \A i \in 1..Len(Demo) : all[i] = one(i)
    BY DemoList
  <2> HIDE DEF all
  <2>3. List(all)
    BY <2>2, DemoList, FnList
  <2> QED BY <2>1, <2>2, <2>3 DEF DeclsOK, ToSet
<1> HIDE DEF all
<1>4. CallOK(Call("insertDecls", NoTable, all)) /\ CallOK(Call("listNames", NoTable, Empty))
  BY <1>3 DEF CallOK, Call, NoTableCalls
<1>5. CallsOK(here)
  BY <1>4, NoCalls, OneCall
<1>6. ResultOK(OnTo(g, here))
  <2> HIDE DEF here
  <2> QED BY <1>2, <1>5, OnToOK
<1> HIDE DEF here
<1> QED BY <1>1, <1>6, FailOK, ReadsTypes

LEMMA ListNamesTypes ==
  ASSUME TypeInv, NEW g \in Gates, ListNames(g)
  PROVE  TypeInv'
<1> DEFINE what == IF kind = "hybrid" THEN "mapping" ELSE "sample"
           ts == {t \in TableNames : There(t)}
           calls == Each(what, Listing(ts))
<1>1. PICK bad \in BOOLEAN : Does(g, "listNames") /\ Reads(g, bad, OnTo(g, calls), Fail)
  BY DEF ListNames
<1>2. todo[g] # <<>>
  BY <1>1, CurOK
<1>3. List(Listing(ts)) /\ ToSet(Listing(ts)) = ts /\ ts \subseteq TableNames
  BY TablesFinite, ListingIs
<1>4. CallsOK(calls)
  <2> HIDE DEF ts
  <2> QED BY <1>3, EachOK
<1> HIDE DEF calls
<1>5. ResultOK(OnTo(g, calls))
  BY <1>2, <1>4, OnToOK
<1> QED BY <1>1, <1>5, FailOK, ReadsTypes

LEMMA MappingTypes ==
  ASSUME TypeInv, NEW g \in Gates, Mapping(g)
  PROVE  TypeInv'
<1> DEFINE t == Cur(g).t
           cols == IF There(t) THEN MappingColumns(t) ELSE Empty
           d == Declaration(t, Empty, {"id"} \cap DOMAIN cols)
           found == IF cols = Empty THEN {} ELSE {[name |-> t, cols |-> cols, key |-> Cur(g).x]}
           one == {[name |-> t, cols |-> cols, key |-> {}]}
           on == CASE job[g].do = "describe" -> With(OnTo(g, <<>>), found)
                   [] job[g].do = "scan" -> With(OnTo(g, <<>>), one)
                   [] OTHER -> OnTo(g, WriteCatalog(d))
           off == IF job[g].do = "describe" THEN OnTo(g, <<>>) ELSE Fail
<1>1. Does(g, "mapping") /\ Reads(g, ~There(t), on, off)
  BY DEF Mapping
<1>2. t \in TableNames /\ todo[g] # <<>>
  BY <1>1, CurOK DEF NoTableCalls
<1>3. Fields(cols, Types)
  BY ColumnsOK, EmptyFields
<1> HIDE DEF cols
<1>4. GotOK(found) /\ GotOK(one)
  BY <1>2, <1>3 DEF GotOK
<1>5. CallsOK(WriteCatalog(d))
  BY <1>2, EmptyFields, DeclarationOK, WriteCatalogOK
<1> HIDE DEF found, one, d, t
<1>6. ResultOK(on)
  <2>1. ResultOK(With(OnTo(g, <<>>), found)) /\ ResultOK(With(OnTo(g, <<>>), one))
    BY <1>2, <1>4, NoCalls, WithOK
  <2>2. ResultOK(OnTo(g, WriteCatalog(d)))
    BY <1>2, <1>5, OnToOK
  <2> QED BY <2>1, <2>2
<1>7. ResultOK(off)
  BY <1>2, NoCalls, OnToOK, FailOK
<1>8. (~There(t)) \in BOOLEAN
  OBVIOUS
<1> HIDE DEF on, off
<1> QED BY <1>1, <1>6, <1>7, <1>8, ReadsTypes

LEMMA SampleTypes ==
  ASSUME TypeInv, NEW g \in Gates, Sample(g)
  PROVE  TypeInv'
<1> DEFINE t == Cur(g).t
           d == InferCatalogDoc(t, FirstDocs(t, SampleSize))
           one(cols) == {[name |-> t, cols |-> cols, key |-> IF job[g].do = "scan" THEN {} ELSE {"_id"}]}
           told(cols) == With(OnTo(g, <<>>), one(cols))
           bad == kind = "hits" /\ ~There(t)
           on == IF kind = "declared" THEN OnTo(g, <<Call("insertDecl", t, d)>>) ELSE told(ColumnsNow(t))
           cut == IF kind = "sampled" THEN {told(ColumnsOfFirst(t, n)) : n \in 0..SampleSize} ELSE {}
<1>1. PICK off \in {Fail} \cup cut : Does(g, "sample") /\ Reads(g, bad, on, off)
  BY DEF Sample
<1>2. t \in TableNames /\ todo[g] # <<>>
  BY <1>1, CurOK DEF NoTableCalls
<1>3. \A cols : Fields(cols, Types) => GotOK(one(cols))
  BY <1>2 DEF GotOK
<1>8. Fields(ColumnsNow(t), Types) /\ \A n : Fields(ColumnsOfFirst(t, n), Types)
  BY ColumnsOK DEF ColumnsOfFirst
<1>4. CallsOK(<<Call("insertDecl", t, d)>>)
  <2>1. DeclOK(d)
    BY <1>2, InferCatalogDocOK
  <2> HIDE DEF d, t
  <2>2. CallOK(Call("insertDecl", t, d))
    BY <1>2, <2>1 DEF CallOK, Call
  <2> QED BY <2>2, OneCall
<1>5. bad \in BOOLEAN
  OBVIOUS
<1> HIDE DEF d, one, t, bad
<1>6. ResultOK(told(ColumnsNow(t))) /\ \A n : ResultOK(told(ColumnsOfFirst(t, n)))
  BY <1>2, <1>3, <1>8, NoCalls, WithOK
<1> HIDE DEF told
<1>7. ResultOK(on) /\ ResultOK(off)
  <2>1. ResultOK(on)
    BY <1>2, <1>4, <1>6, OnToOK
  <2>2. ResultOK(off)
    <3> HIDE DEF on
    <3> QED BY <1>1, <1>6, FailOK
  <2> QED BY <2>1, <2>2
<1> HIDE DEF on, cut
<1> QED BY <1>1, <1>5, <1>7, ReadsTypes

LEMMA DeclIndexExistsTypes ==
  ASSUME TypeInv, NEW g \in Gates, DeclIndexExists(g)
  PROVE  TypeInv'
<1> DEFINE no == OnTo(g, <<Call("declIndexCreate", NoTable, Empty)>>)
           on == IF declIndex THEN OnTo(g, <<>>) ELSE no
<1>1. Does(g, "declIndexExists") /\ Reads(g, FALSE, on, no)
  BY DEF DeclIndexExists
<1>2. CallsOK(<<Call("declIndexCreate", NoTable, Empty)>>)
  BY OneCall, NoTableCall DEF NoTableCalls
<1>3. todo[g] # <<>>
  BY <1>1, CurOK
<1>4. ResultOK(no) /\ ResultOK(OnTo(g, <<>>))
  BY <1>2, <1>3, NoCalls, OnToOK
<1>5. ResultOK(on)
  BY <1>4
<1> HIDE DEF on, no
<1> QED BY <1>1, <1>4, <1>5, ReadsTypes

LEMMA DeclIndexCreateTypes ==
  ASSUME TypeInv, NEW g \in Gates, DeclIndexCreate(g)
  PROVE  TypeInv'
<1>1. Does(g, "declIndexCreate") /\ Perform(g, FALSE, SetDecls(decls), OnTo(g, <<>>), Fail)
  BY DEF DeclIndexCreate
<1>2. StoreOK(SetDecls(decls))
  BY SetDeclsOK DEF TypeInv, StoreOK, Now
<1> QED BY <1>1, <1>2, CurOK, NoCalls, OnToOK, FailOK, PerformTypes

LEMMA PutDeclTypes ==
  ASSUME TypeInv, NEW g \in Gates, PutDecl(g)
  PROVE  TypeInv'
<1> DEFINE d == Cur(g).x
           ds == IF Declared(d.table) THEN ReplaceAt(decls, Min(At(d.table)), d) ELSE Append(decls, d)
<1>1. Does(g, "putDecl") /\ Perform(g, FALSE, SetDecls(ds), OnTo(g, <<>>), Fail)
  BY DEF PutDecl
<1>2. DeclOK(d) /\ DeclsOK(decls)
  BY <1>1, CurOK DEF CallOK, TypeInv, StoreOK, Now
<1>3. DeclsOK(ds)
  <2>1. CASE Declared(d.table)
    BY <2>1, <1>2, FirstDecl, ReplacedOK
  <2>2. CASE ~Declared(d.table)
    BY <2>2, <1>2, ListAppend DEF DeclsOK
  <2> QED BY <2>1, <2>2
<1> HIDE DEF ds
<1> QED BY <1>1, <1>3, SetDeclsOK, CurOK, NoCalls, OnToOK, FailOK, PerformTypes

LEMMA InsertDeclTypes ==
  ASSUME TypeInv, NEW g \in Gates, InsertDecl(g)
  PROVE  TypeInv'
<1> DEFINE ds == Append(decls, Cur(g).x)
<1>1. Does(g, "insertDecl") /\ Perform(g, FALSE, SetDecls(ds), OnTo(g, <<>>), Fail)
  BY DEF InsertDecl
<1>2. DeclOK(Cur(g).x) /\ DeclsOK(decls)
  BY <1>1, CurOK DEF CallOK, TypeInv, StoreOK, Now
<1>3. DeclsOK(ds)
  BY <1>2, ListAppend DEF DeclsOK
<1> HIDE DEF ds
<1> QED BY <1>1, <1>3, SetDeclsOK, CurOK, NoCalls, OnToOK, FailOK, PerformTypes

LEMMA InsertDeclsTypes ==
  ASSUME TypeInv, NEW g \in Gates, InsertDecls(g)
  PROVE  TypeInv'
<1> DEFINE ds == decls \o Cur(g).x
<1>1. Does(g, "insertDecls") /\ Perform(g, FALSE, SetDecls(ds), OnTo(g, <<>>), Fail)
  BY DEF InsertDecls
<1>2. DeclsOK(Cur(g).x) /\ DeclsOK(decls)
  BY <1>1, CurOK DEF CallOK, TypeInv, StoreOK, Now
<1>3. DeclsOK(ds)
  BY <1>2, ListConcat DEF DeclsOK
<1> HIDE DEF ds
<1> QED BY <1>1, <1>3, SetDeclsOK, CurOK, NoCalls, OnToOK, FailOK, PerformTypes

LEMMA PushColsTypes ==
  ASSUME TypeInv, NEW g \in Gates, PushCols(g)
  PROVE  TypeInv'
<1> DEFINE c == Cur(g)
           d == Pushed(TheDecl(c.t), c.x)
           new == IF Declared(c.t) THEN SetDecls(ReplaceAt(decls, Min(At(c.t)), d)) ELSE Now
<1>1. Does(g, "pushCols") /\ Perform(g, FALSE, new, OnTo(g, <<>>), Fail)
  BY DEF PushCols
<1>2. Fields(c.x, SqlNames) /\ DeclsOK(decls)
  BY <1>1, CurOK DEF CallOK, TypeInv, StoreOK, Now
<1>3. ASSUME Declared(c.t) PROVE StoreOK(SetDecls(ReplaceAt(decls, Min(At(c.t)), d)))
  <2>1. DeclOK(TheDecl(c.t)) /\ Min(At(c.t)) \in 1..Len(decls)
    BY <1>3, FirstDecl
  <2>2. DeclOK(d)
    BY <2>1, <1>2, PushedOK
  <2> HIDE DEF d
  <2> QED BY <2>1, <2>2, <1>2, ReplacedOK, SetDeclsOK
<1>4. StoreOK(new)
  <2> HIDE DEF d
  <2> QED BY <1>3, NowOK
<1> HIDE DEF new
<1> QED BY <1>1, <1>4, CurOK, NoCalls, OnToOK, FailOK, PerformTypes

LEMMA GetDeclTypes ==
  ASSUME TypeInv, NEW g \in Gates, GetDecl(g)
  PROVE  TypeInv'
<1> DEFINE t == Cur(g).t
           on == IF kind = "declared" /\ Declared(t) THEN With(OnTo(g, <<>>), {ToTable(TheDecl(t))}) ELSE OnTo(g, <<>>)
<1>1. Does(g, "getDecl") /\ Reads(g, ~Declared(t), on, Fail)
  BY DEF GetDecl
<1>2. todo[g] # <<>>
  BY <1>1, CurOK
<1>3. Declared(t) => GotOK({ToTable(TheDecl(t))})
  BY FirstDecl, ToTableOK DEF GotOK
<1>4. ResultOK(on)
  BY <1>2, <1>3, NoCalls, OnToOK, WithOK
<1>5. (~Declared(t)) \in BOOLEAN
  OBVIOUS
<1> HIDE DEF on
<1> QED BY <1>1, <1>4, <1>5, FailOK, ReadsTypes

-----------------------------------------------------------------------------
(* The calls of a start *)

LEMMA AbsentOK ==
  ASSUME TypeInv, NEW g \in Gates, NEW c \in {"exists", "count"}, Does(g, c)
  PROVE  ResultOK(Absent(g))
<1>1. PICK i \in DOMAIN Demo : Cur(g).x = Demo[i]
  BY CurOK DEF CallOK
<1> DEFINE x == Cur(g).x
<1>2. x.name \in TableNames /\ List(x.docs)
  BY <1>1, DataAssumption
<1>3. todo[g] # <<>>
  BY CurOK
<1> HIDE DEF x
<1>4. CallsOK(Calls("index", x.name, x.docs)) /\ CallsOK(CreateTable(x.name, x.cols, x.key))
  BY <1>2, IndexCallsOK, CreateTableOK
<1>5. CallsOK(<<Call("ensure", x.name, Empty)>>) /\ CallsOK(<<Call("insertMany", x.name, x.docs)>>)
  BY <1>2, PlainCall, OneCall
<1>6. CallsOK(CreateTable(x.name, x.cols, x.key) \o Calls("index", x.name, x.docs))
  BY <1>4, MoreCalls
<1>7. CallsOK(<<Call("ensure", x.name, Empty)>> \o Calls("index", x.name, x.docs))
  BY <1>4, <1>5, MoreCalls
<1>8. /\ ResultOK(OnTo(g, CreateTable(x.name, x.cols, x.key) \o Calls("index", x.name, x.docs)))
      /\ ResultOK(OnTo(g, <<Call("ensure", x.name, Empty)>> \o Calls("index", x.name, x.docs)))
      /\ ResultOK(OnTo(g, <<Call("insertMany", x.name, x.docs)>>))
  BY <1>3, <1>5, <1>6, <1>7, OnToOK
<1> QED BY <1>8 DEF Absent, x

LEMMA ExistsIndexTypes ==
  ASSUME TypeInv, NEW g \in Gates, ExistsIndex(g)
  PROVE  TypeInv'
<1> DEFINE on == IF There(Cur(g).t) THEN OnTo(g, <<>>) ELSE Absent(g)
<1>1. Does(g, "exists") /\ Reads(g, FALSE, on, Absent(g))
  BY DEF ExistsIndex
<1>2. ResultOK(Absent(g)) /\ ResultOK(OnTo(g, <<>>))
  BY <1>1, AbsentOK, CurOK, NoCalls, OnToOK
<1>3. ResultOK(on)
  BY <1>2
<1> HIDE DEF on
<1> QED BY <1>1, <1>2, <1>3, ReadsTypes

LEMMA CountTypes ==
  ASSUME TypeInv, NEW g \in Gates, Count(g)
  PROVE  TypeInv'
<1> DEFINE on == IF Docs(Cur(g).t) # <<>> THEN OnTo(g, <<>>) ELSE Absent(g)
           off == IF kind = "hits" THEN Absent(g) ELSE Fail
<1>1. Does(g, "count") /\ Reads(g, FALSE, on, off)
  BY DEF Count
<1>2. ResultOK(Absent(g)) /\ ResultOK(OnTo(g, <<>>))
  BY <1>1, AbsentOK, CurOK, NoCalls, OnToOK
<1>3. ResultOK(on) /\ ResultOK(off)
  BY <1>2, FailOK
<1> HIDE DEF on, off
<1> QED BY <1>1, <1>3, ReadsTypes

LEMMA EnsureTypes ==
  ASSUME TypeInv, NEW g \in Gates, Ensure(g)
  PROVE  TypeInv'
<1> DEFINE t == Cur(g).t
           calls == IF There(t) THEN <<>> ELSE <<Call("create", t, Empty)>>
<1>1. Does(g, "ensure") /\ Reads(g, FALSE, OnTo(g, calls), Fail)
  BY DEF Ensure
<1>2. t \in TableNames /\ todo[g] # <<>>
  BY <1>1, CurOK DEF NoTableCalls
<1>3. CallOK(Call("create", t, Empty))
  BY <1>2, EmptyFields DEF CallOK, Call
<1>4. CallsOK(calls)
  BY <1>3, NoCalls, OneCall
<1>5. ResultOK(OnTo(g, calls))
  <2> HIDE DEF calls
  <2> QED BY <1>2, <1>4, OnToOK
<1> HIDE DEF calls
<1> QED BY <1>1, <1>5, FailOK, ReadsTypes

LEMMA StepTypes ==
  ASSUME TypeInv, NEW g \in Gates, Step(g)
  PROVE  TypeInv'
  BY CreateCollTypes, PutMappingTypes, DropCollTypes, DeleteDeclTypes, IndexDocTypes, InsertManyTypes,
     UpdateWhereTypes, DeleteWhereTypes, SearchTypes, ReadDeclsTypes, CountDeclsTypes, ListNamesTypes,
     MappingTypes, SampleTypes, DeclIndexExistsTypes, DeclIndexCreateTypes, PutDeclTypes, InsertDeclTypes,
     InsertDeclsTypes, PushColsTypes, GetDeclTypes, ExistsIndexTypes, CountTypes, EnsureTypes
  DEF Step

-----------------------------------------------------------------------------
(* Jobs, starts and crashes *)

LEMMA BeginTypes ==
  ASSUME TypeInv, NEW g \in Gates, NEW do, NEW t, NEW calls, Begin(g, do, t, calls),
         JobOK([do |-> do, t |-> t]), do # "none", CallsOK(calls)
  PROVE  TypeInv'
<1>1. StoreOK(Now)' /\ kind' \in Kinds
  BY DEF Begin, store, TypeInv, StoreOK, Now, DeclsOK, DeclOK, CollOK
<1>2. /\ DOMAIN up' = Gates /\ DOMAIN job' = Gates /\ DOMAIN todo' = Gates /\ DOMAIN got' = Gates
      /\ DOMAIN seen' = Gates /\ DOMAIN always' = Gates /\ DOMAIN known' = Gates /\ DOMAIN full' = Gates
      /\ DOMAIN made' = Gates
  BY DEF Begin, TypeInv
<1>3. ASSUME NEW x \in Gates PROVE GateOK(x)'
  <2>1. GateOK(x) /\ up' = up
    BY DEF TypeInv, Begin
  <2>2. CASE x # g
    <3>1. job'[x] = job[x] /\ todo'[x] = todo[x] /\ got'[x] = got[x]
      BY <2>2 DEF Begin, TypeInv
    <3> QED BY <2>1, <3>1 DEF GateOK
  <2>3. CASE x = g
    <3>1. job'[g] = [do |-> do, t |-> t] /\ todo'[g] = calls /\ up[g] = "serving"
      BY DEF Begin, TypeInv
    <3>2. got'[g] \in {StaticSchema, {}}
      BY DEF Begin, TypeInv
    <3>3. GotOK(got'[g])
      BY <3>2, StaticSchemaOK DEF GotOK
    <3>4. job'[g] # Nothing
      BY <3>1 DEF Nothing
    <3> QED BY <2>1, <2>3, <3>1, <3>3, <3>4 DEF GateOK
  <2> QED BY <2>2, <2>3
<1> QED BY <1>1, <1>2, <1>3 DEF TypeInv

LEMMA DescribeOK == CallsOK(Describe)
<1>1. CallOK(Call("readDecls", NoTable, Empty)) /\ CallOK(Call("listNames", NoTable, Empty))
  BY NoTableCall DEF NoTableCalls
<1> QED BY <1>1, OneCall, NoCalls DEF Describe

LEMMA ThreeCalls ==
  ASSUME NEW c, NEW d, NEW e, CallOK(c), CallOK(d), CallOK(e)
  PROVE  CallsOK(<<c, d, e>>)
<1> DEFINE s == <<c, d, e>>
<1>1. DOMAIN s = 1..3 /\ s = [i \in 1..3 |-> s[i]] /\ s[1] = c /\ s[2] = d /\ s[3] = e
  OBVIOUS
<1>2. \A i \in 1..3 : CallOK(s[i])
  BY <1>1
<1>3. CallsOK(s)
  <2> HIDE DEF s
  <2> QED BY <1>1, <1>2, FnCalls
<1> QED BY <1>3

LEMMA ScanOK ==
  ASSUME NEW t \in TableNames
  PROVE  CallsOK(Scan(t))
<1>1. /\ CallOK(Call("getDecl", t, Empty)) /\ CallOK(Call("mapping", t, Empty))
      /\ CallOK(Call("search", t, Empty)) /\ CallOK(Call("sample", t, Empty))
  BY PlainCall
<1> QED BY <1>1, OneCall, TwoCalls, ThreeCalls DEF Scan

LEMMA BeginReadTypes ==
  ASSUME TypeInv, NEW g \in Gates, BeginRead(g)
  PROVE  TypeInv'
<1>1. CASE Begin(g, "describe", NoTable, Describe)
  <2>1. JobOK([do |-> "describe", t |-> NoTable])
    BY DEF JobOK
  <2> QED BY <1>1, <2>1, DescribeOK, BeginTypes
<1>2. ASSUME NEW t \in TableNames, Begin(g, "scan", t, Scan(t)) PROVE TypeInv'
  <2>1. JobOK([do |-> "scan", t |-> t])
    BY DEF JobOK
  <2> QED BY <1>2, <2>1, ScanOK, BeginTypes
<1> QED BY <1>1, <1>2 DEF BeginRead

LEMMA InsertOK ==
  ASSUME NEW t \in TableNames, NEW rows, List(rows)
  PROVE  CallsOK(Insert(t, rows))
  BY PlainCall, OneCall, IndexCallsOK DEF Insert

LEMMA BeginWriteTypes ==
  ASSUME TypeInv, NEW g \in Gates, BeginWrite(g)
  PROVE  TypeInv'
<1> PICK t \in ChangedTables :
      \/ \E i \in DOMAIN RowLists : Begin(g, "insert", t, Insert(t, RowLists[i]))
      \/ \E i \in DOMAIN Wheres :
           \/ \E j \in DOMAIN Sets : Begin(g, "update", t, <<Call("updateWhere", t, [where |-> Wheres[i], set |-> Sets[j]])>>)
           \/ Begin(g, "delete", t, <<Call("deleteWhere", t, [where |-> Wheres[i]])>>)
  BY DEF BeginWrite
<1>1. t \in TableNames
  BY GatewaysAssumption
<1>2. JobOK([do |-> "insert", t |-> t]) /\ JobOK([do |-> "update", t |-> t]) /\ JobOK([do |-> "delete", t |-> t])
  BY <1>1 DEF JobOK
<1>3. ASSUME NEW i \in DOMAIN RowLists, Begin(g, "insert", t, Insert(t, RowLists[i])) PROVE TypeInv'
  <2>1. CallsOK(Insert(t, RowLists[i]))
    BY <1>1, InsertOK, DataAssumption
  <2> QED BY <1>2, <1>3, <2>1, BeginTypes
<1>4. ASSUME NEW i, NEW j, Begin(g, "update", t, <<Call("updateWhere", t, [where |-> Wheres[i], set |-> Sets[j]])>>)
      PROVE  TypeInv'
  <2>1. CallsOK(<<Call("updateWhere", t, [where |-> Wheres[i], set |-> Sets[j]])>>)
    BY <1>1, PlainCall, OneCall
  <2> QED BY <1>2, <1>4, <2>1, BeginTypes
<1>5. ASSUME NEW i, Begin(g, "delete", t, <<Call("deleteWhere", t, [where |-> Wheres[i]])>>) PROVE TypeInv'
  <2>1. CallsOK(<<Call("deleteWhere", t, [where |-> Wheres[i]])>>)
    BY <1>1, PlainCall, OneCall
  <2> QED BY <1>2, <1>5, <2>1, BeginTypes
<1> QED BY <1>3, <1>4, <1>5

LEMMA BeginDDLTypes ==
  ASSUME TypeInv, NEW g \in Gates, BeginDDL(g)
  PROVE  TypeInv'
<1>1. ASSUME NEW t \in TableNames, NEW i,
             Begin(g, "create", t, CreateTable(t, CreateLists[i], DOMAIN CreateLists[i] \cap {"id"}))
      PROVE  TypeInv'
  <2>1. JobOK([do |-> "create", t |-> t])
    BY DEF JobOK
  <2>2. CallsOK(CreateTable(t, CreateLists[i], DOMAIN CreateLists[i] \cap {"id"}))
    BY CreateTableOK
  <2> QED BY <1>1, <2>1, <2>2, BeginTypes
<1>2. ASSUME NEW t \in TableNames, NEW i, Begin(g, "alter", t, AlterTable(t, CreateLists[i])) PROVE TypeInv'
  <2>1. JobOK([do |-> "alter", t |-> t])
    BY DEF JobOK
  <2> DEFINE es == [c \in DOMAIN CreateLists[i] |-> KindToES(CreateLists[i][c])]
             sql == [c \in DOMAIN CreateLists[i] |-> KindToSQL(CreateLists[i][c])]
  <2>2. Fields(es, EsNames) /\ Fields(sql, SqlNames)
    BY KindToESFields, KindToSQLFields
  <2>3. AlterTable(t, CreateLists[i]) \in {<<Call("putMapping", t, es)>>, <<Call("pushCols", t, sql)>>, <<>>}
    BY DEF AlterTable
  <2> HIDE DEF es, sql
  <2>4. CallOK(Call("putMapping", t, es)) /\ CallOK(Call("pushCols", t, sql))
    BY <2>2 DEF CallOK, Call
  <2>5. CallsOK(AlterTable(t, CreateLists[i]))
    BY <2>3, <2>4, NoCalls, OneCall
  <2> QED BY <1>2, <2>1, <2>5, BeginTypes
<1>3. ASSUME NEW t \in TableNames, Begin(g, "drop", t, DropTable(t)) PROVE TypeInv'
  <2>1. JobOK([do |-> "drop", t |-> t])
    BY DEF JobOK
  <2>2. CallsOK(DropTable(t))
    BY PlainCall, OneCall, TwoCalls DEF DropTable
  <2> QED BY <1>3, <2>1, <2>2, BeginTypes
<1> QED BY <1>1, <1>2, <1>3, GatewaysAssumption DEF BeginDDL

(* a gateway that rests, wherever it goes *)
LEMMA RestTypes ==
  ASSUME TypeInv, NEW g \in Gates, Rest(g), NEW to \in {"down", "serving"},
         DOMAIN up' = Gates, DOMAIN todo' = Gates,
         \A x \in Gates : up'[x] = IF x = g THEN to ELSE up[x],
         \A x \in Gates : todo'[x] = IF x = g THEN <<>> ELSE todo[x]
  PROVE  TypeInv'
<1>1. StoreOK(Now)' /\ kind' \in Kinds
  BY DEF Rest, store, TypeInv, StoreOK, Now, DeclsOK, DeclOK, CollOK
<1>2. /\ DOMAIN up' = Gates /\ DOMAIN job' = Gates /\ DOMAIN todo' = Gates /\ DOMAIN got' = Gates
      /\ DOMAIN seen' = Gates /\ DOMAIN always' = Gates /\ DOMAIN known' = Gates /\ DOMAIN full' = Gates
      /\ DOMAIN made' = Gates
  BY DEF Rest, TypeInv
<1>3. ASSUME NEW x \in Gates PROVE GateOK(x)'
  <2>1. GateOK(x)
    BY DEF TypeInv
  <2>2. CASE x # g
    <3>1. up'[x] = up[x] /\ job'[x] = job[x] /\ todo'[x] = todo[x] /\ got'[x] = got[x]
      BY <2>2 DEF Rest, TypeInv
    <3> QED BY <2>1, <3>1 DEF GateOK
  <2>3. CASE x = g
    <3>1. up'[g] = to /\ job'[g] = Nothing /\ todo'[g] = <<>> /\ got'[g] = {}
      BY DEF Rest, TypeInv
    <3>2. JobOK(Nothing) /\ CallsOK(<<>>) /\ GotOK({})
      BY NoCalls DEF JobOK, Nothing, GotOK
    <3> QED BY <2>3, <3>1, <3>2 DEF GateOK
  <2> QED BY <2>2, <2>3
<1> QED BY <1>1, <1>2, <1>3 DEF TypeInv

LEMMA AnswerTypes ==
  ASSUME TypeInv, NEW g \in Gates, Answer(g)
  PROVE  TypeInv'
  BY RestTypes DEF Answer, Done, TypeInv

LEMMA ReadyTypes ==
  ASSUME TypeInv, NEW g \in Gates, Ready(g)
  PROVE  TypeInv'
  BY RestTypes DEF Ready, Done, TypeInv

LEMMA CrashTypes ==
  ASSUME TypeInv, NEW g \in Gates, Crash(g)
  PROVE  TypeInv'
  BY RestTypes DEF Crash, TypeInv

LEMMA SeedOK == CallsOK(Seed)
<1> DEFINE asks(c) == [i \in DOMAIN Demo |-> Call(c, Demo[i].name, Demo[i])]
<1>1. ASSUME NEW c \in {"exists", "count"} PROVE CallsOK(asks(c))
  <2> DEFINE s == asks(c)
  <2>1. /\ DOMAIN s = 1..Len(Demo) /\ s = [i \in 1..Len(Demo) |-> s[i]]
        /\ \A i \in 1..Len(Demo) : s[i] = Call(c, Demo[i].name, Demo[i])
    BY DemoList
  <2> HIDE DEF s
  <2>2. \A i \in 1..Len(Demo) : CallOK(s[i])
    BY <2>1, DemoList, DataAssumption DEF CallOK, Call
  <2>3. CallsOK(s)
    BY <2>1, <2>2, DemoList, FnCalls
  <2> QED BY <2>3 DEF s
<1>2. CallsOK(<<Call("countDecls", NoTable, Empty)>>)
  BY OneCall, NoTableCall DEF NoTableCalls
<1>3. CallsOK(asks("exists")) /\ CallsOK(asks("count"))
  BY <1>1
<1>4. Seed \in {asks("exists"), asks("count") \o <<Call("countDecls", NoTable, Empty)>>, asks("count") \o <<>>}
  BY DEF Seed
<1> HIDE DEF asks
<1> QED BY <1>2, <1>3, <1>4, NoCalls, MoreCalls

LEMMA EnsureCatalogOK == CallsOK(EnsureCatalog)
<1>1. CallOK(Call("readDecls", NoTable, Empty)) /\ CallOK(Call("countDecls", NoTable, Empty))
  BY NoTableCall DEF NoTableCalls
<1> QED BY <1>1, OneCall, NoCalls DEF EnsureCatalog

LEMMA StartTypes ==
  ASSUME TypeInv, NEW g \in Gates, Start(g)
  PROVE  TypeInv'
<1>1. StoreOK(Now)' /\ kind' \in Kinds
  BY DEF Start, store, TypeInv, StoreOK, Now, DeclsOK, DeclOK, CollOK
<1>2. /\ DOMAIN up' = Gates /\ DOMAIN job' = Gates /\ DOMAIN todo' = Gates /\ DOMAIN got' = Gates
      /\ DOMAIN seen' = Gates /\ DOMAIN always' = Gates /\ DOMAIN known' = Gates /\ DOMAIN full' = Gates
      /\ DOMAIN made' = Gates
  BY DEF Start, TypeInv
<1>3. ASSUME NEW x \in Gates PROVE GateOK(x)'
  <2>1. GateOK(x) /\ got' = got
    BY DEF TypeInv, Start
  <2>2. CASE x # g
    <3>1. up'[x] = up[x] /\ job'[x] = job[x] /\ todo'[x] = todo[x]
      BY <2>2 DEF Start, TypeInv
    <3> QED BY <2>1, <3>1 DEF GateOK
  <2>3. CASE x = g
    <3>1. PICK do \in {"seed", "ensure"} :
            /\ job' = [job EXCEPT ![g] = [do |-> do, t |-> NoTable]]
            /\ todo' = [todo EXCEPT ![g] = IF do = "seed" THEN Seed ELSE EnsureCatalog]
      BY DEF Start
    <3>2. up'[g] = "starting" /\ job'[g] = [do |-> do, t |-> NoTable] /\ todo'[g] \in {Seed, EnsureCatalog}
      BY <3>1 DEF Start, TypeInv
    <3>3. JobOK(job'[g]) /\ job'[g] # Nothing
      BY <3>2 DEF JobOK, Nothing
    <3> QED BY <2>1, <2>3, <3>2, <3>3, SeedOK, EnsureCatalogOK DEF GateOK
  <2> QED BY <2>2, <2>3
<1> QED BY <1>1, <1>2, <1>3 DEF TypeInv

LEMMA InitTypes == Init => TypeInv
<1> SUFFICES ASSUME Init PROVE TypeInv
  OBVIOUS
<1>1. StoreOK(Now)
  <2>1. DeclsOK(<<>>)
    BY NoList DEF DeclsOK
  <2>2. \A t \in DOMAIN Foreign : CollOK(Foreign[t])
    BY DataAssumption DEF CollOK, Fields
  <2> QED BY <2>1, <2>2, DataAssumption DEF Init, StoreOK, Now
<1>2. \A g \in Gates : GateOK(g)
  BY NoCalls DEF Init, GateOK, JobOK, Nothing, GotOK
<1> QED BY <1>1, <1>2, GatewaysAssumption DEF Init, TypeInv

LEMMA UnchangedTypes == TypeInv /\ UNCHANGED vars => TypeInv'
<1> SUFFICES ASSUME TypeInv, UNCHANGED vars PROVE TypeInv'
  OBVIOUS
<1>1. /\ kind' = kind /\ coll' = coll /\ decls' = decls /\ declIndex' = declIndex /\ up' = up /\ job' = job
      /\ todo' = todo /\ got' = got /\ seen' = seen /\ always' = always /\ known' = known /\ full' = full
      /\ made' = made
  BY DEF vars, store, history
<1>2. StoreOK(Now)'
  BY <1>1 DEF TypeInv, StoreOK, Now, DeclsOK, DeclOK, CollOK
<1>3. \A g \in Gates : GateOK(g)'
  BY <1>1 DEF TypeInv, GateOK
<1> QED BY <1>1, <1>2, <1>3 DEF TypeInv

LEMMA NextTypes == TypeInv /\ [Next]_vars => TypeInv'
  BY StepTypes, BeginReadTypes, BeginWriteTypes, BeginDDLTypes, AnswerTypes, StartTypes, ReadyTypes,
     CrashTypes, UnchangedTypes DEF Next, Stop

LEMMA TypesInvariant == Spec => []TypeInv
  BY InitTypes, NextTypes, PTL DEF Spec

(* What is stored and what is answered is of the types the code knows, for *)
(* any tables, documents, clients and demonstration: every type a gateway  *)
(* declares or maps is one it reads back (kindToES, esTypeToSQL;           *)
(* kindToSQL, bsonSQLType, sqlType).                                       *)
THEOREM GatewayTypes == Spec => []TypeOK
<1>1. TypeInv => TypeOK
  <2> SUFFICES ASSUME TypeInv PROVE TypeOK
    OBVIOUS
  <2>1. DOMAIN coll \subseteq TableNames /\ \A t \in DOMAIN coll : \A f \in DOMAIN coll[t].fields : coll[t].fields[f] \in EsNames
    BY DEF TypeInv, StoreOK, Now, CollOK, Fields
  <2>2. \A i \in DOMAIN decls : DeclOK(decls[i])
    BY ListElems DEF TypeInv, StoreOK, Now, DeclsOK
  <2>3. \A i \in DOMAIN decls :
          /\ decls[i].table \in TableNames
          /\ \A x \in {decls[i].cols} \cup ToSet(decls[i].again) : \A c \in DOMAIN x : x[c] \in SqlNames
    BY <2>2 DEF DeclOK, Fields
  <2>4. \A g \in Gates : \A x \in got[g] : x.name \in TableNames /\ \A c \in DOMAIN x.cols : x.cols[c] \in Types
    BY DEF TypeInv, GateOK, GotOK, Fields
  <2>5. \A g \in Gates : up[g] = "down" => job[g] = Nothing /\ todo[g] = <<>>
    BY DEF TypeInv, GateOK
  <2>6. decls # <<>> => declIndex
    BY DEF TypeInv, StoreOK, Now
  <2> QED BY <2>1, <2>3, <2>4, <2>5, <2>6 DEF TypeOK
<1> QED BY TypesInvariant, <1>1, PTL


-----------------------------------------------------------------------------
(* What a start leaves alone.  The calls a starting gateway still makes    *)
(* are none that change or drop a table with documents it found; it reads  *)
(* tables to declare only if it found no declaration; and it replaces a    *)
(* declaration it found only after it created the table itself.            *)

StartCalls == {"exists", "count", "ensure", "create", "index", "insertMany", "declIndexExists", "declIndexCreate",
               "putDecl", "insertDecl", "insertDecls", "readDecls", "countDecls", "listNames", "mapping", "sample"}

StartCall(c, k, f) ==
  /\ c.c \in StartCalls
  /\ c.c \in {"index", "insertMany"} => c.t \notin f
  /\ c.c \in {"listNames", "mapping", "sample"} => k = {}
  /\ c.c = "putDecl" => c.x.table = c.t

Puts(q, k, m) ==
  \A i \in 1..Len(q) : q[i].c = "putDecl" =>
    \/ k = {} \/ q[i].t \in m
    \/ \E j \in 1..(i - 1) : q[j].c = "create" /\ q[j].t = q[i].t

StartInv(q, k, f, m) == (\A i \in DOMAIN q : StartCall(q[i], k, f)) /\ Puts(q, k, m)

Keeps(g) ==
  /\ known[g] \subseteq ToSet(decls) /\ full[g] \subseteq Filled
  /\ Starts(g) => StartInv(todo[g], known[g], full[g], made[g])
KeepInv == \A g \in Gates : Keeps(g)

LEMMA PutsTail ==
  ASSUME NEW q, List(q), q # <<>>, NEW k, NEW m, Puts(q, k, m),
         NEW k2, NEW m2, k2 \subseteq k, m \subseteq m2,
         q[1].c = "create" => q[1].t \in m2
  PROVE  Puts(Tail(q), k2, m2)
<1> DEFINE u == Tail(q)
<1>1. Len(q) \in Nat /\ Len(q) > 0 /\ Len(u) = Len(q) - 1 /\ \A i \in 1..(Len(q) - 1) : u[i] = q[i + 1]
  BY ListElems, ListTail
<1> HIDE DEF u
<1>2. ASSUME NEW i \in 1..Len(u), u[i].c = "putDecl", k2 # {}, u[i].t \notin m2
      PROVE  \E j \in 1..(i - 1) : u[j].c = "create" /\ u[j].t = u[i].t
  <2>1. i + 1 \in 1..Len(q) /\ u[i] = q[i + 1]
    BY <1>1
  <2>2. k # {} /\ q[i + 1].t \notin m
    BY <1>2, <2>1
  <2>3. PICK j \in 1..((i + 1) - 1) : q[j].c = "create" /\ q[j].t = q[i + 1].t
    BY <1>2, <2>1, <2>2 DEF Puts
  <2>4. j # 1
    BY <1>2, <2>1, <2>3
  <2>5. j - 1 \in 1..(i - 1) /\ j - 1 \in 1..(Len(q) - 1) /\ (j - 1) + 1 = j
    BY <1>1, <2>4
  <2>6. u[j - 1] = q[j]
    BY <1>1, <2>5
  <2> QED BY <2>1, <2>3, <2>5, <2>6
<1> QED BY <1>2 DEF Puts, u

LEMMA PutsMore ==
  ASSUME NEW p, NEW q, List(p), List(q), NEW k, NEW m, Puts(p, k, m), Puts(q, k, m)
  PROVE  Puts(p \o q, k, m)
<1> DEFINE u == p \o q
<1>1. /\ Len(p) \in Nat /\ Len(q) \in Nat /\ Len(u) = Len(p) + Len(q)
      /\ \A i \in 1..Len(p) : u[i] = p[i]
      /\ \A i \in 1..Len(q) : u[Len(p) + i] = q[i]
  BY ListElems, ListConcat
<1> HIDE DEF u
<1>2. ASSUME NEW i \in 1..Len(u), u[i].c = "putDecl", k # {}, u[i].t \notin m
      PROVE  \E j \in 1..(i - 1) : u[j].c = "create" /\ u[j].t = u[i].t
  <2>1. CASE i <= Len(p)
    <3>1. i \in 1..Len(p) /\ u[i] = p[i]
      BY <1>1, <2>1
    <3>2. PICK j \in 1..(i - 1) : p[j].c = "create" /\ p[j].t = p[i].t
      BY <1>2, <3>1 DEF Puts
    <3>3. u[j] = p[j]
      BY <1>1, <3>1
    <3> QED BY <3>1, <3>2, <3>3
  <2>2. CASE i > Len(p)
    <3> DEFINE n == i - Len(p)
    <3>1. n \in 1..Len(q) /\ Len(p) + n = i
      BY <1>1, <2>2
    <3> HIDE DEF n
    <3>2. u[i] = q[n]
      BY <1>1, <3>1
    <3>3. PICK j \in 1..(n - 1) : q[j].c = "create" /\ q[j].t = q[n].t
      BY <1>2, <3>1, <3>2 DEF Puts
    <3>4. Len(p) + j \in 1..(i - 1) /\ j \in 1..Len(q)
      BY <1>1, <3>1
    <3>5. u[Len(p) + j] = q[j]
      BY <1>1, <3>4
    <3> QED BY <3>2, <3>3, <3>4, <3>5
  <2> QED BY <1>1, <2>1, <2>2
<1> QED BY <1>2 DEF Puts, u

(* calls that replace no declaration *)
LEMMA PutsNone ==
  ASSUME NEW q, List(q), \A c \in ToSet(q) : c.c # "putDecl"
  PROVE  \A k, m : Puts(q, k, m)
  BY ListElems DEF Puts

(* the calls a step adds, and those it leaves *)
Added(calls, k, f, m) == List(calls) /\ (\A c \in ToSet(calls) : StartCall(c, k, f)) /\ Puts(calls, k, m)

LEMMA StartGoesOn ==
  ASSUME NEW q, List(q), q # <<>>, NEW k, NEW f, NEW m, StartInv(q, k, f, m),
         NEW k2, NEW f2, NEW m2, k2 \subseteq k, f2 \subseteq f, m \subseteq m2,
         q[1].c = "create" => q[1].t \in m2,
         NEW calls, Added(calls, k2, f2, m2)
  PROVE  StartInv(calls \o Tail(q), k2, f2, m2)
<1> DEFINE u == calls \o Tail(q)
<1>1. List(Tail(q)) /\ ToSet(Tail(q)) \subseteq ToSet(q)
  BY ListTail
<1>2. Puts(Tail(q), k2, m2)
  BY PutsTail DEF StartInv
<1>3. Puts(u, k2, m2)
  BY <1>1, <1>2, PutsMore DEF Added
<1>4. List(u) /\ ToSet(u) = ToSet(calls) \cup ToSet(Tail(q))
  BY <1>1, ListConcat DEF Added
<1>5. \A c \in ToSet(q) : StartCall(c, k2, f2)
  <2>1. \A c \in ToSet(q) : StartCall(c, k, f)
    BY ListElems DEF StartInv
  <2> QED BY <2>1 DEF StartCall
<1> HIDE DEF u
<1>6. \A c \in ToSet(u) : StartCall(c, k2, f2)
  BY <1>1, <1>4, <1>5 DEF Added
<1>7. \A i \in DOMAIN u : StartCall(u[i], k2, f2)
  BY <1>4, <1>6, ListElems
<1> QED BY <1>3, <1>7 DEF StartInv, u

LEMMA StartStays ==
  ASSUME NEW q, NEW k, NEW f, NEW m, StartInv(q, k, f, m),
         NEW k2, NEW f2, k2 \subseteq k, f2 \subseteq f
  PROVE  StartInv(q, k2, f2, m)
<1>1. \A i \in DOMAIN q : StartCall(q[i], k2, f2)
  BY DEF StartInv, StartCall
<1>2. Puts(q, k2, m)
  BY DEF StartInv, Puts
<1> QED BY <1>1, <1>2 DEF StartInv

LEMMA AddedNone == \A k, f, m : Added(<<>>, k, f, m)
  BY NoList, PutsNone DEF Added

(* calls none of which replaces a declaration *)
LEMMA AddedPlain ==
  ASSUME NEW calls, List(calls), NEW k, NEW f, NEW m,
         \A c \in ToSet(calls) : StartCall(c, k, f) /\ c.c # "putDecl"
  PROVE  Added(calls, k, f, m)
  BY PutsNone DEF Added

LEMMA AddedGrows ==
  ASSUME NEW calls, NEW k, NEW f, NEW m, Added(calls, k, f, m),
         NEW k2, NEW f2, NEW m2, k2 \subseteq k, f2 \subseteq f, m \subseteq m2
  PROVE  Added(calls, k2, f2, m2)
<1>1. Puts(calls, k2, m2)
  BY DEF Added, Puts
<1>2. \A c \in ToSet(calls) : StartCall(c, k2, f2)
  BY DEF Added, StartCall
<1> QED BY <1>1, <1>2 DEF Added

(* nothing a starting gateway found is lost in s *)
Safe(g, s) ==
  /\ \A t \in full[g] : t \in DOMAIN s.coll /\ s.coll[t] = coll[t]
  /\ \A d \in known[g] : d \in ToSet(s.decls) \/ d.table \in made[g]

LeftAlone(g) ==
  /\ \A t \in full[g] : t \in DOMAIN coll' /\ coll'[t] = coll[t]
  /\ \A d \in known[g] : d \in ToSet(decls') \/ d.table \in made[g]

(* r goes on with the calls a starting gateway may make *)
Goes(g, r, missed) ==
  r.ok => \E calls : r.todo = calls \o Tail(todo[g]) /\ Added(calls, known[g], full[g] \ missed, made[g])

LEMMA FullThere ==
  ASSUME KeepInv, NEW g \in Gates
  PROVE  \A t \in full[g] : t \in DOMAIN coll /\ Docs(t) # <<>>
  BY DEF KeepInv, Keeps, Filled, Docs, There

LEMMA SafeNow ==
  ASSUME KeepInv, NEW g \in Gates
  PROVE  Safe(g, Now)
  BY FullThere DEF Safe, Now, KeepInv, Keeps

LEMMA OthersKeep ==
  ASSUME TypeInv, KeepInv, NEW g \in Gates, NEW s, NEW r, NEW missed,
         Outcome(g, s, r), History(g, missed), NEW x \in Gates, x # g \/ ~Starts(g)
  PROVE  Keeps(x)'
<1>1. Keeps(x)
  BY DEF KeepInv
<1>2. known'[x] = known[x] \cap ToSet(decls') /\ full'[x] \subseteq full[x] \cap Filled'
  BY DEF History
<1>3. Starts(x)' => x # g /\ Starts(x) /\ todo'[x] = todo[x] /\ made'[x] = made[x]
  BY DEF Outcome, TypeInv, Starts
<1>4. Starts(x)' => StartInv(todo[x], known'[x], full'[x], made[x])
  BY <1>1, <1>2, <1>3, StartStays DEF Keeps
<1>5. Starts(x)' => StartInv(todo'[x], known'[x], full'[x], made'[x])
  BY <1>3, <1>4
<1> QED BY <1>2, <1>5 DEF Keeps

LEMMA OutcomeKeeps ==
  ASSUME TypeInv, KeepInv, NEW g \in Gates, Starts(g), todo[g] # <<>>, NEW s, NEW r, NEW missed,
         Outcome(g, s, r), History(g, missed), Safe(g, s), Goes(g, r, missed), r.ok \in BOOLEAN,
         r.ok /\ Cur(g).c = "create" => Cur(g).t \in DOMAIN s.coll \ DOMAIN coll
  PROVE  KeepInv' /\ LeftAlone(g)
<1>1. LeftAlone(g)
  BY DEF LeftAlone, Safe, Outcome
<1>2. ASSUME NEW x \in Gates, x # g PROVE Keeps(x)'
  BY <1>2, OthersKeep
<1>3. Keeps(g)'
  <2>1. known'[g] = known[g] \cap ToSet(decls') /\ full'[g] \subseteq Filled' /\ full'[g] \subseteq full[g] \ missed
    BY DEF History
  <2>2. ASSUME r.ok PROVE StartInv(todo'[g], known'[g], full'[g], made'[g])
    <3> PICK calls : r.todo = calls \o Tail(todo[g]) /\ Added(calls, known[g], full[g] \ missed, made[g])
      BY <2>2 DEF Goes
    <3>1. made'[g] = made[g] \cup (DOMAIN s.coll \ DOMAIN coll) /\ todo'[g] = r.todo
      BY <2>2 DEF Outcome, TypeInv
    <3>2. Added(calls, known'[g], full'[g], made'[g])
      BY <2>1, <3>1, AddedGrows
    <3>3. List(todo[g]) /\ Cur(g) = todo[g][1]
      BY ListTail DEF TypeInv, GateOK, CallsOK, Cur
    <3>4. StartInv(todo[g], known[g], full[g], made[g])
      BY DEF KeepInv, Keeps
    <3>5. todo[g][1].c = "create" => todo[g][1].t \in made'[g]
      BY <2>2, <3>1, <3>3
    <3>6. StartInv(calls \o Tail(todo[g]), known'[g], full'[g], made'[g])
      <4> DEFINE q == todo[g]  k == known[g]  f == full[g]  m == made[g]
                 k2 == known'[g]  f2 == full'[g]  m2 == made'[g]
      <4>1. List(q) /\ q # <<>> /\ StartInv(q, k, f, m) /\ Added(calls, k2, f2, m2) /\ (q[1].c = "create" => q[1].t \in m2)
        BY <3>2, <3>3, <3>4, <3>5
      <4>2. k2 \subseteq k /\ f2 \subseteq f /\ m \subseteq m2
        BY <2>1, <3>1
      <4> HIDE DEF q, k, f, m, k2, f2, m2
      <4>3. StartInv(calls \o Tail(q), k2, f2, m2)
        BY <4>1, <4>2, StartGoesOn
      <4> QED BY <4>3 DEF q, k2, f2, m2
    <3> QED BY <3>1, <3>6
  <2>3. Starts(g)' => r.ok
    BY DEF Outcome, Starts, TypeInv
  <2> QED BY <2>1, <2>2, <2>3 DEF Keeps
<1> QED BY <1>1, <1>2, <1>3 DEF KeepInv

(* a call a starting gateway makes: done or not, answered or not *)
LEMMA PerformKeeps ==
  ASSUME TypeInv, KeepInv, NEW g \in Gates, Starts(g), todo[g] # <<>>,
         NEW bad \in BOOLEAN, NEW new, NEW on, NEW off, Perform(g, bad, new, on, off),
         Safe(g, new), Goes(g, on, {}), Goes(g, off, {Cur(g).t}), on.ok \in BOOLEAN, off.ok \in BOOLEAN,
         Cur(g).c = "create" => ~off.ok /\ (~bad => Cur(g).t \in DOMAIN new.coll \ DOMAIN coll)
  PROVE  KeepInv' /\ LeftAlone(g)
<1>1. CASE Outcome(g, new, on) /\ History(g, {}) /\ ~bad
  BY <1>1, OutcomeKeeps
<1>2. ASSUME NEW s \in {new, Now}, Outcome(g, s, off), History(g, {Cur(g).t}) PROVE KeepInv' /\ LeftAlone(g)
  <2>1. Safe(g, s)
    BY SafeNow
  <2> QED BY <1>2, <2>1, OutcomeKeeps
<1> QED BY <1>1, <1>2, PerformOutcomes

LEMMA ReadsKeep ==
  ASSUME TypeInv, KeepInv, NEW g \in Gates, Starts(g), NEW c, Does(g, c), c # "create",
         NEW bad \in BOOLEAN, NEW on, NEW off, Reads(g, bad, on, off),
         Goes(g, on, {}), Goes(g, off, {Cur(g).t}), on.ok \in BOOLEAN, off.ok \in BOOLEAN
  PROVE  KeepInv' /\ LeftAlone(g)
  BY CurOK, SafeNow, PerformKeeps DEF Reads

-----------------------------------------------------------------------------
(* What a starting gateway's calls leave, one by one *)

LEMMA CurStart ==
  ASSUME TypeInv, KeepInv, NEW g \in Gates, Starts(g), NEW c, Does(g, c)
  PROVE  /\ c \in StartCalls /\ StartCall(Cur(g), known[g], full[g])
         /\ c = "putDecl" => known[g] = {} \/ Cur(g).t \in made[g]
<1>1. List(todo[g]) /\ todo[g] # <<>> /\ Cur(g) = todo[g][1] /\ Cur(g).c = c /\ Len(todo[g]) \in Nat /\ Len(todo[g]) > 0
      /\ DOMAIN todo[g] = 1..Len(todo[g])
  BY CurOK, ListTail, ListElems DEF TypeInv, GateOK, CallsOK, Cur
<1>2. StartInv(todo[g], known[g], full[g], made[g])
  BY DEF KeepInv, Keeps
<1>3. StartCall(Cur(g), known[g], full[g])
  BY <1>1, <1>2 DEF StartInv
<1>4. c = "putDecl" => known[g] = {} \/ Cur(g).t \in made[g]
  BY <1>1, <1>2 DEF StartInv, Puts
<1> QED BY <1>1, <1>3, <1>4 DEF StartCall

LEMMA OnGoes ==
  ASSUME NEW g, NEW calls, NEW missed, Added(calls, known[g], full[g] \ missed, made[g])
  PROVE  Goes(g, OnTo(g, calls), missed) /\ OnTo(g, calls).ok
  BY DEF Goes, OnTo

LEMMA WithGoes ==
  ASSUME NEW g, NEW xs, NEW missed
  PROVE  Goes(g, With(OnTo(g, <<>>), xs), missed) /\ With(OnTo(g, <<>>), xs).ok
<1> DEFINE r == With(OnTo(g, <<>>), xs)
<1>1. r.ok = TRUE /\ r.todo = <<>> \o Tail(todo[g])
  BY DEF With, OnTo
<1> HIDE DEF r
<1> QED BY <1>1, AddedNone DEF Goes, r

LEMMA NextGoes ==
  ASSUME NEW g
  PROVE  \A missed : Goes(g, OnTo(g, <<>>), missed) /\ OnTo(g, <<>>).ok
  BY AddedNone, OnGoes

LEMMA FailGoes ==
  ASSUME NEW g
  PROVE  \A missed : Goes(g, Fail, missed) /\ Fail.ok = FALSE
  BY DEF Goes, Fail

(* a call that changes the store safely, and is the last of what it does *)
LEMMA CallKeeps ==
  ASSUME TypeInv, KeepInv, NEW g \in Gates, Starts(g), NEW c, Does(g, c), c # "create",
         NEW bad \in BOOLEAN, NEW new, Perform(g, bad, new, OnTo(g, <<>>), Fail), Safe(g, new)
  PROVE  KeepInv' /\ LeftAlone(g)
<1>1. OnTo(g, <<>>).ok \in BOOLEAN
  BY DEF OnTo
<1> QED BY <1>1, CurOK, NextGoes, FailGoes, PerformKeeps

LEMMA CreateCollKeeps ==
  ASSUME TypeInv, KeepInv, NEW g \in Gates, Starts(g), CreateColl(g)
  PROVE  KeepInv' /\ LeftAlone(g)
<1> DEFINE c == Cur(g)
           new == IF There(c.t) THEN Now ELSE SetColl(c.t, NewColl(c.x))
<1>1. Does(g, "create") /\ Perform(g, There(c.t), new, OnTo(g, <<>>), Fail)
  BY DEF CreateColl
<1>2. Safe(g, new)
  <2>1. CASE There(c.t)
    BY <2>1, SafeNow
  <2>2. CASE ~There(c.t)
    <3>1. \A t \in full[g] : t # c.t
      BY <2>2, FullThere DEF There
    <3> QED BY <2>2, <3>1, FullThere DEF Safe, SetColl, Now, KeepInv, Keeps
  <2> QED BY <2>1, <2>2
<1>3. ~There(c.t) => c.t \in DOMAIN new.coll \ DOMAIN coll
  BY DEF SetColl, Now, There
<1>4. There(c.t) \in BOOLEAN
  BY DEF There
<1> HIDE DEF new
<1>5. OnTo(g, <<>>).ok \in BOOLEAN
  BY DEF OnTo
<1> QED BY <1>1, <1>2, <1>3, <1>4, <1>5, CurOK, NextGoes, FailGoes, PerformKeeps

(* rows go to tables that had none *)
LEMMA SafeRows ==
  ASSUME KeepInv, NEW g \in Gates, NEW t, t \notin full[g], NEW c
  PROVE  Safe(g, SetColl(t, c))
  BY FullThere DEF Safe, SetColl, Now, KeepInv, Keeps

LEMMA IndexDocKeeps ==
  ASSUME TypeInv, KeepInv, NEW g \in Gates, Starts(g), IndexDoc(g)
  PROVE  KeepInv' /\ LeftAlone(g)
<1> DEFINE c == Cur(g)
           new == IF Unfit(c.t, c.x) THEN Now ELSE SetColl(c.t, Stored(Holder(c.t), c.x))
<1>1. Does(g, "index") /\ Perform(g, Unfit(c.t, c.x), new, OnTo(g, <<>>), Fail)
  BY DEF IndexDoc
<1>2. Safe(g, new)
  BY <1>1, CurOK, CurStart, SafeNow, SafeRows DEF StartCall
<1>3. Unfit(c.t, c.x) \in BOOLEAN
  BY DEF Unfit
<1> HIDE DEF new, c
<1> QED BY <1>1, <1>2, <1>3, CallKeeps

LEMMA InsertManyKeeps ==
  ASSUME TypeInv, KeepInv, NEW g \in Gates, Starts(g), InsertMany(g)
  PROVE  KeepInv' /\ LeftAlone(g)
<1> DEFINE c == Cur(g)
           after == InOrder(Holder(c.t), c.x)
           bad == Len(after.docs) < Len(Docs(c.t)) + Len(c.x)
<1>1. Does(g, "insertMany") /\ Perform(g, bad, SetColl(c.t, after), OnTo(g, <<>>), Fail)
  BY DEF InsertMany
<1>2. bad \in BOOLEAN
  OBVIOUS
<1> HIDE DEF after, bad
<1>3. Safe(g, SetColl(c.t, after))
  BY <1>1, CurOK, CurStart, SafeRows DEF StartCall
<1> QED BY <1>1, <1>2, <1>3, CallKeeps

(* declarations that only grow *)
LEMMA SafeDecls ==
  ASSUME KeepInv, NEW g \in Gates, NEW ds, ToSet(decls) \subseteq ToSet(ds)
  PROVE  Safe(g, SetDecls(ds))
  BY FullThere DEF Safe, SetDecls, Now, KeepInv, Keeps

LEMMA DeclIndexCreateKeeps ==
  ASSUME TypeInv, KeepInv, NEW g \in Gates, Starts(g), DeclIndexCreate(g)
  PROVE  KeepInv' /\ LeftAlone(g)
  BY SafeDecls, CallKeeps DEF DeclIndexCreate

LEMMA InsertDeclKeeps ==
  ASSUME TypeInv, KeepInv, NEW g \in Gates, Starts(g), InsertDecl(g)
  PROVE  KeepInv' /\ LeftAlone(g)
<1>1. List(decls)
  BY DEF TypeInv, StoreOK, Now, DeclsOK
<1>2. ToSet(decls) \subseteq ToSet(Append(decls, Cur(g).x))
  BY <1>1, ListAppend
<1> QED BY <1>2, SafeDecls, CallKeeps DEF InsertDecl

LEMMA InsertDeclsKeeps ==
  ASSUME TypeInv, KeepInv, NEW g \in Gates, Starts(g), InsertDecls(g)
  PROVE  KeepInv' /\ LeftAlone(g)
<1>1. Does(g, "insertDecls")
  BY DEF InsertDecls
<1>2. List(decls) /\ List(Cur(g).x)
  BY <1>1, CurOK DEF CallOK, TypeInv, StoreOK, Now, DeclsOK
<1>3. ToSet(decls) \subseteq ToSet(decls \o Cur(g).x)
  BY <1>2, ListConcat
<1> QED BY <1>3, SafeDecls, CallKeeps DEF InsertDecls

LEMMA ReplacedKeeps ==
  ASSUME NEW ds, List(ds), NEW i \in 1..Len(ds), NEW d
  PROVE  \A e \in ToSet(ds) : e \in ToSet(ReplaceAt(ds, i, d)) \/ e = ds[i]
<1> DEFINE R == ToSet(ds) \cup {d}
           u == ReplaceAt(ds, i, d)
<1>1. ds \in Seq(R) /\ Len(ds) \in Nat /\ DOMAIN ds = 1..Len(ds)
  <2>1. ds \in Seq(ToSet(ds)) /\ Len(ds) \in Nat /\ DOMAIN ds = 1..Len(ds)
    BY ListElems DEF List
  <2> QED BY <2>1
<1> HIDE DEF R
<1>2. DOMAIN u = 1..Len(ds) /\ \A j \in 1..Len(ds) : j # i => u[j] = ds[j]
  BY <1>1 DEF ReplaceAt
<1> HIDE DEF u
<1> QED BY <1>1, <1>2 DEF ToSet, u

LEMMA PutDeclKeeps ==
  ASSUME TypeInv, KeepInv, NEW g \in Gates, Starts(g), PutDecl(g)
  PROVE  KeepInv' /\ LeftAlone(g)
<1> DEFINE d == Cur(g).x
           ds == IF Declared(d.table) THEN ReplaceAt(decls, Min(At(d.table)), d) ELSE Append(decls, d)
<1>1. Does(g, "putDecl") /\ Perform(g, FALSE, SetDecls(ds), OnTo(g, <<>>), Fail)
  BY DEF PutDecl
<1>2. List(decls)
  BY DEF TypeInv, StoreOK, Now, DeclsOK
<1>3. known[g] = {} \/ d.table \in made[g]
  BY <1>1, CurOK, CurStart DEF StartCall
<1>4. \A e \in ToSet(decls) : e \in ToSet(ds) \/ e.table = d.table
  <2>1. CASE Declared(d.table)
    <3> DEFINE i == Min(At(d.table))
    <3>1. i \in 1..Len(decls) /\ decls[i].table = d.table
      BY <2>1, FirstDecl
    <3> HIDE DEF i, d
    <3>2. \A e \in ToSet(decls) : e \in ToSet(ReplaceAt(decls, i, d)) \/ e = decls[i]
      BY <1>2, <3>1, ReplacedKeeps
    <3> QED BY <2>1, <3>1, <3>2 DEF i
  <2>2. CASE ~Declared(d.table)
    BY <1>2, <2>2, ListAppend
  <2> QED BY <2>1, <2>2
<1> HIDE DEF ds
<1>5. Safe(g, SetDecls(ds))
  BY <1>3, <1>4, FullThere DEF Safe, SetDecls, Now, KeepInv, Keeps
<1> QED BY <1>1, <1>5, CallKeeps

LEMMA EnsureKeeps ==
  ASSUME TypeInv, KeepInv, NEW g \in Gates, Starts(g), Ensure(g)
  PROVE  KeepInv' /\ LeftAlone(g)
<1> DEFINE t == Cur(g).t
           calls == IF There(t) THEN <<>> ELSE <<Call("create", t, Empty)>>
<1>1. Does(g, "ensure") /\ Reads(g, FALSE, OnTo(g, calls), Fail)
  BY DEF Ensure
<1>2. Added(calls, known[g], full[g] \ {}, made[g])
  <2>1. StartCall(Call("create", t, Empty), known[g], full[g] \ {})
    BY DEF StartCall, Call, StartCalls
  <2> QED BY <2>1, AddedNone, AddedPlain, OneList DEF Call
<1> HIDE DEF calls
<1> QED BY <1>1, <1>2, OnGoes, FailGoes, ReadsKeep

LEMMA DeclIndexExistsKeeps ==
  ASSUME TypeInv, KeepInv, NEW g \in Gates, Starts(g), DeclIndexExists(g)
  PROVE  KeepInv' /\ LeftAlone(g)
<1> DEFINE new == <<Call("declIndexCreate", NoTable, Empty)>>
           no == OnTo(g, new)
           on == IF declIndex THEN OnTo(g, <<>>) ELSE no
<1>1. Does(g, "declIndexExists") /\ Reads(g, FALSE, on, no)
  BY DEF DeclIndexExists
<1>2. \A missed : Added(new, known[g], full[g] \ missed, made[g])
  <2>1. \A f : StartCall(Call("declIndexCreate", NoTable, Empty), known[g], f)
    BY DEF StartCall, Call, StartCalls
  <2> QED BY <2>1, AddedPlain, OneList DEF Call
<1> HIDE DEF new
<1>3. \A missed : Goes(g, no, missed) /\ Goes(g, on, missed)
  BY <1>2, OnGoes, NextGoes
<1>4. on.ok = TRUE /\ no.ok = TRUE
  BY DEF OnTo
<1> HIDE DEF on, no
<1> QED BY <1>1, <1>3, <1>4, ReadsKeep

LEMMA ReadDeclsKeeps ==
  ASSUME TypeInv, KeepInv, NEW g \in Gates, Starts(g), ReadDecls(g)
  PROVE  KeepInv' /\ LeftAlone(g)
<1> DEFINE calls == IF decls = <<>> THEN <<Call("listNames", NoTable, Empty)>> ELSE <<>>
<1>1. Does(g, "readDecls") /\ Reads(g, FALSE, OnTo(g, calls), Fail)
  BY DEF ReadDecls
<1>2. Added(calls, known[g], full[g] \ {}, made[g])
  <2>1. decls = <<>> => known[g] = {}
    BY NoList DEF KeepInv, Keeps
  <2>2. decls = <<>> => StartCall(Call("listNames", NoTable, Empty), known[g], full[g] \ {})
    BY <2>1 DEF StartCall, Call, StartCalls
  <2> QED BY <2>2, AddedNone, AddedPlain, OneList DEF Call
<1> HIDE DEF calls
<1> QED BY <1>1, <1>2, OnGoes, FailGoes, ReadsKeep

LEMMA CountDeclsKeeps ==
  ASSUME TypeInv, KeepInv, NEW g \in Gates, Starts(g), CountDecls(g)
  PROVE  KeepInv' /\ LeftAlone(g)
<1> DEFINE all == [i \in DOMAIN Demo |->
                     Declaration(Demo[i].name, [c \in DOMAIN Demo[i].cols |-> KindToSQL(Demo[i].cols[c])], Demo[i].key)]
           here == IF job[g].do = "seed" THEN <<Call("insertDecls", NoTable, all)>>
                                         ELSE <<Call("listNames", NoTable, Empty)>>
           calls == IF decls = <<>> THEN here ELSE <<>>
<1>1. Does(g, "countDecls") /\ Reads(g, FALSE, OnTo(g, calls), Fail)
  BY DEF CountDecls
<1> HIDE DEF all
<1>2. Added(calls, known[g], full[g] \ {}, made[g])
  <2>1. decls = <<>> => known[g] = {}
    BY NoList DEF KeepInv, Keeps
  <2>2. decls = <<>> => /\ StartCall(Call("listNames", NoTable, Empty), known[g], full[g] \ {})
                        /\ StartCall(Call("insertDecls", NoTable, all), known[g], full[g] \ {})
    BY <2>1 DEF StartCall, Call, StartCalls
  <2>3. Call("listNames", NoTable, Empty).c # "putDecl" /\ Call("insertDecls", NoTable, all).c # "putDecl"
    BY DEF Call
  <2>4. decls = <<>> => /\ Added(<<Call("listNames", NoTable, Empty)>>, known[g], full[g] \ {}, made[g])
                        /\ Added(<<Call("insertDecls", NoTable, all)>>, known[g], full[g] \ {}, made[g])
    BY <2>2, <2>3, AddedPlain, OneList
  <2> QED BY <2>4, AddedNone
<1> HIDE DEF calls
<1> QED BY <1>1, <1>2, OnGoes, FailGoes, ReadsKeep

LEMMA ListNamesKeeps ==
  ASSUME TypeInv, KeepInv, NEW g \in Gates, Starts(g), ListNames(g)
  PROVE  KeepInv' /\ LeftAlone(g)
<1> DEFINE what == IF kind = "hybrid" THEN "mapping" ELSE "sample"
           ts == {t \in TableNames : There(t)}
           calls == Each(what, Listing(ts))
<1>1. PICK bad \in BOOLEAN : Does(g, "listNames") /\ Reads(g, bad, OnTo(g, calls), Fail)
  BY DEF ListNames
<1>2. known[g] = {}
  BY <1>1, CurStart DEF StartCall, Does
<1>3. List(Listing(ts)) /\ ToSet(Listing(ts)) = ts /\ ts \subseteq TableNames
  BY TablesFinite, ListingIs
<1>4. List(calls) /\ ToSet(calls) = {Call(what, t, Empty) : t \in ts}
  <2> HIDE DEF ts
  <2> QED BY <1>3, EachOK DEF CallsOK
<1>5. \A c \in ToSet(calls) : StartCall(c, known[g], full[g] \ {}) /\ c.c # "putDecl"
  BY <1>2, <1>4 DEF StartCall, Call, StartCalls
<1> HIDE DEF calls
<1>6. Added(calls, known[g], full[g] \ {}, made[g])
  BY <1>4, <1>5, AddedPlain
<1> QED BY <1>1, <1>6, OnGoes, FailGoes, ReadsKeep

LEMMA SampleKeeps ==
  ASSUME TypeInv, KeepInv, NEW g \in Gates, Starts(g), Sample(g)
  PROVE  KeepInv' /\ LeftAlone(g)
<1> DEFINE t == Cur(g).t
           calls == <<Call("insertDecl", t, InferCatalogDoc(t, FirstDocs(t, SampleSize)))>>
           one(cols) == {[name |-> t, cols |-> cols, key |-> IF job[g].do = "scan" THEN {} ELSE {"_id"}]}
           told(cols) == With(OnTo(g, <<>>), one(cols))
           bad == kind = "hits" /\ ~There(t)
           on == IF kind = "declared" THEN OnTo(g, calls) ELSE told(ColumnsNow(t))
           cut == IF kind = "sampled" THEN {told(ColumnsOfFirst(t, n)) : n \in 0..SampleSize} ELSE {}
<1>1. PICK off \in {Fail} \cup cut : Does(g, "sample") /\ Reads(g, bad, on, off)
  BY DEF Sample
<1>2. bad \in BOOLEAN
  OBVIOUS
<1>3. Added(calls, known[g], full[g] \ {}, made[g])
  <2> DEFINE c == Call("insertDecl", t, InferCatalogDoc(t, FirstDocs(t, SampleSize)))
  <2>1. StartCall(c, known[g], full[g] \ {}) /\ c.c # "putDecl"
    BY DEF StartCall, Call, StartCalls
  <2> HIDE DEF c
  <2>2. Added(<<c>>, known[g], full[g] \ {}, made[g])
    BY <2>1, AddedPlain, OneList
  <2> QED BY <2>2 DEF c
<1> HIDE DEF calls, one, bad
<1>4. \A cols, missed : Goes(g, told(cols), missed) /\ told(cols).ok = TRUE
  BY WithGoes DEF With, OnTo
<1>5. Goes(g, OnTo(g, calls), {}) /\ OnTo(g, calls).ok = TRUE
  BY <1>3, OnGoes DEF OnTo
<1> HIDE DEF told
<1>6. Goes(g, on, {}) /\ on.ok \in BOOLEAN
  BY <1>4, <1>5
<1>7. \A missed : Goes(g, off, missed) /\ off.ok \in BOOLEAN
  <2> HIDE DEF on
  <2> QED BY <1>1, <1>4, FailGoes
<1> HIDE DEF on, cut
<1> QED BY <1>1, <1>2, <1>6, <1>7, ReadsKeep

LEMMA MappingKeeps ==
  ASSUME TypeInv, KeepInv, NEW g \in Gates, Starts(g), Mapping(g)
  PROVE  KeepInv' /\ LeftAlone(g)
<1> DEFINE t == Cur(g).t
           cols == IF There(t) THEN MappingColumns(t) ELSE Empty
           d == Declaration(t, Empty, {"id"} \cap DOMAIN cols)
           found == IF cols = Empty THEN {} ELSE {[name |-> t, cols |-> cols, key |-> Cur(g).x]}
           one == {[name |-> t, cols |-> cols, key |-> {}]}
           on == CASE job[g].do = "describe" -> With(OnTo(g, <<>>), found)
                   [] job[g].do = "scan" -> With(OnTo(g, <<>>), one)
                   [] OTHER -> OnTo(g, WriteCatalog(d))
           off == IF job[g].do = "describe" THEN OnTo(g, <<>>) ELSE Fail
<1>1. Does(g, "mapping") /\ Reads(g, ~There(t), on, off)
  BY DEF Mapping
<1>2. known[g] = {}
  BY <1>1, CurStart DEF StartCall, Does
<1>3. d.table = t
  BY DEF Declaration
<1> HIDE DEF cols, found, one, d, t
<1>4. List(WriteCatalog(d)) /\ \A c \in ToSet(WriteCatalog(d)) : StartCall(c, known[g], full[g] \ {})
  <2>1. /\ StartCall(Call("declIndexExists", d.table, d), known[g], full[g] \ {})
        /\ StartCall(Call("putDecl", d.table, d), known[g], full[g] \ {})
    BY DEF StartCall, Call, StartCalls
  <2> QED BY <2>1, OneList, TwoList DEF WriteCatalog
<1>5. Puts(WriteCatalog(d), known[g], made[g])
  BY <1>2 DEF Puts
<1>6. Added(WriteCatalog(d), known[g], full[g] \ {}, made[g])
  BY <1>4, <1>5 DEF Added
<1>7. Goes(g, on, {}) /\ on.ok \in BOOLEAN
  <2>1. Goes(g, OnTo(g, WriteCatalog(d)), {}) /\ OnTo(g, WriteCatalog(d)).ok = TRUE
    BY <1>6, OnGoes DEF OnTo
  <2>2. \A xs : Goes(g, With(OnTo(g, <<>>), xs), {}) /\ With(OnTo(g, <<>>), xs).ok = TRUE
    BY WithGoes DEF With, OnTo
  <2>3. on \in {OnTo(g, WriteCatalog(d)), With(OnTo(g, <<>>), found), With(OnTo(g, <<>>), one)}
    OBVIOUS
  <2> HIDE DEF on
  <2> QED BY <2>1, <2>2, <2>3
<1>8. Goes(g, off, {Cur(g).t}) /\ off.ok \in BOOLEAN
  <2>1. OnTo(g, <<>>).ok = TRUE
    BY DEF OnTo
  <2> QED BY <2>1, NextGoes, FailGoes
<1>9. (~There(t)) \in BOOLEAN
  OBVIOUS
<1> HIDE DEF on, off
<1> QED BY <1>1, <1>7, <1>8, <1>9, ReadsKeep

(* a table that is missing or empty, or about which nothing was learnt, *)
(* is filled; what the gateway has just made it declares                *)
LEMMA AbsentGoes ==
  ASSUME TypeInv, KeepInv, NEW g \in Gates, NEW c \in {"exists", "count"}, Does(g, c),
         NEW missed, Cur(g).t \notin full[g] \ missed
  PROVE  Goes(g, Absent(g), missed) /\ Absent(g).ok = TRUE
<1> DEFINE x == Cur(g).x
           f == full[g] \ missed
           k == known[g]
           m == made[g]
<1>1. PICK i \in DOMAIN Demo : x = Demo[i] /\ Cur(g).t = Demo[i].name
  BY CurOK DEF CallOK
<1>2. List(x.docs) /\ x.name \notin f
  BY <1>1, DataAssumption
<1> HIDE DEF x, f, k, m
<1>3. Added(Calls("index", x.name, x.docs), k, f, m)
  <2> DEFINE s == Calls("index", x.name, x.docs)
  <2>1. Len(x.docs) \in Nat /\ DOMAIN x.docs = 1..Len(x.docs)
    BY <1>2, ListElems
  <2>2. /\ DOMAIN s = 1..Len(x.docs) /\ s = [j \in 1..Len(x.docs) |-> s[j]]
        /\ \A j \in 1..Len(x.docs) : s[j] = Call("index", x.name, x.docs[j])
    BY <2>1 DEF Calls
  <2> HIDE DEF s
  <2>3. List(s)
    BY <2>1, <2>2, FnList
  <2>4. \A e \in ToSet(s) : StartCall(e, k, f) /\ e.c # "putDecl"
    <3>1. \A y : StartCall(Call("index", x.name, y), k, f) /\ Call("index", x.name, y).c # "putDecl"
      BY <1>2 DEF StartCall, Call, StartCalls
    <3> QED BY <2>2, <3>1 DEF ToSet
  <2>5. Added(s, k, f, m)
    BY <2>3, <2>4, AddedPlain
  <2> QED BY <2>5 DEF s
<1>4. \A p, q : Added(p, k, f, m) /\ Added(q, k, f, m) => Added(p \o q, k, f, m)
  BY ListConcat, PutsMore DEF Added
<1>5. Added(<<Call("ensure", x.name, Empty)>>, k, f, m) /\ Added(<<Call("insertMany", x.name, x.docs)>>, k, f, m)
  <2>1. StartCall(Call("ensure", x.name, Empty), k, f) /\ StartCall(Call("insertMany", x.name, x.docs), k, f)
    BY <1>2 DEF StartCall, Call, StartCalls
  <2>2. Call("ensure", x.name, Empty).c # "putDecl" /\ Call("insertMany", x.name, x.docs).c # "putDecl"
    BY DEF Call
  <2> QED BY <2>1, <2>2, AddedPlain, OneList
<1>6. kind = "hybrid" => Added(CreateTable(x.name, x.cols, x.key), k, f, m)
  <2> SUFFICES ASSUME kind = "hybrid" PROVE Added(CreateTable(x.name, x.cols, x.key), k, f, m)
    OBVIOUS
  <2> DEFINE d == Declaration(x.name, Empty, x.key)
             es == [e \in DOMAIN x.cols |-> KindToES(x.cols[e])]
             c1 == Call("create", x.name, es)
             c2 == Call("declIndexExists", d.table, d)
             c3 == Call("putDecl", d.table, d)
             q == <<c1>> \o <<c2, c3>>
  <2>1. CreateTable(x.name, x.cols, x.key) = q
    BY DEF CreateTable, WriteCatalog
  <2>2. d.table = x.name
    BY DEF Declaration
  <2> HIDE DEF d, es
  <2>3. StartCall(c1, k, f) /\ StartCall(c2, k, f) /\ StartCall(c3, k, f)
    BY DEF StartCall, Call, StartCalls
  <2>4. c1.c = "create" /\ c1.t = x.name /\ c2.c # "putDecl" /\ c3.t = x.name
    BY <2>2 DEF Call
  <2> HIDE DEF c1, c2, c3
  <2>5. List(<<c1>>) /\ ToSet(<<c1>>) = {c1} /\ List(<<c2, c3>>) /\ ToSet(<<c2, c3>>) = {c2, c3}
    BY OneList, TwoList
  <2>6. List(q) /\ ToSet(q) = {c1, c2, c3}
    BY <2>5, ListConcat
  <2>7. Len(q) = 3 /\ q[1] = c1 /\ q[2] = c2 /\ q[3] = c3
    OBVIOUS
  <2> HIDE DEF q
  <2>8. Puts(q, k, m)
    <3> SUFFICES ASSUME NEW j \in 1..3, q[j].c = "putDecl"
                 PROVE  \E l \in 1..(j - 1) : q[l].c = "create" /\ q[l].t = q[j].t
      BY <2>7 DEF Puts
    <3>1. j = 3
      BY <2>4, <2>7
    <3>2. 1 \in 1..(j - 1) /\ q[1].c = "create" /\ q[1].t = q[j].t
      BY <2>4, <2>7, <3>1
    <3> QED BY <3>2
  <2>9. Added(q, k, f, m)
    BY <2>3, <2>6, <2>8 DEF Added
  <2> QED BY <2>1, <2>9
<1>7. PICK calls : Absent(g) = OnTo(g, calls) /\ Added(calls, k, f, m)
  <2>1. CASE kind = "hybrid"
    <3>1. Added(CreateTable(x.name, x.cols, x.key) \o Calls("index", x.name, x.docs), k, f, m)
      BY <1>3, <1>4, <1>6, <2>1
    <3> QED BY <2>1, <3>1 DEF Absent, x
  <2>2. CASE kind = "hits"
    <3>1. Added(<<Call("ensure", x.name, Empty)>> \o Calls("index", x.name, x.docs), k, f, m)
      BY <1>3, <1>4, <1>5
    <3> QED BY <2>2, <3>1 DEF Absent, x
  <2>3. CASE kind \notin {"hybrid", "hits"}
    BY <1>5, <2>3 DEF Absent, x
  <2> QED BY <2>1, <2>2, <2>3
<1>8. OnTo(g, calls).ok = TRUE
  BY DEF OnTo
<1> QED BY <1>7, <1>8, OnGoes DEF k, f, m

LEMMA ExistsIndexKeeps ==
  ASSUME TypeInv, KeepInv, NEW g \in Gates, Starts(g), ExistsIndex(g)
  PROVE  KeepInv' /\ LeftAlone(g)
<1> DEFINE on == IF There(Cur(g).t) THEN OnTo(g, <<>>) ELSE Absent(g)
<1>1. Does(g, "exists") /\ Reads(g, FALSE, on, Absent(g))
  BY DEF ExistsIndex
<1>2. Goes(g, Absent(g), {Cur(g).t}) /\ Absent(g).ok = TRUE
  BY <1>1, AbsentGoes
<1>3. Goes(g, on, {}) /\ on.ok = TRUE
  <2>1. CASE There(Cur(g).t)
    BY <2>1, NextGoes DEF OnTo
  <2>2. CASE ~There(Cur(g).t)
    <3>1. Cur(g).t \notin full[g]
      BY <2>2, FullThere DEF There
    <3> QED BY <1>1, <2>2, <3>1, AbsentGoes
  <2> QED BY <2>1, <2>2
<1> HIDE DEF on
<1> QED BY <1>1, <1>2, <1>3, ReadsKeep

LEMMA CountKeeps ==
  ASSUME TypeInv, KeepInv, NEW g \in Gates, Starts(g), Count(g)
  PROVE  KeepInv' /\ LeftAlone(g)
<1> DEFINE on == IF Docs(Cur(g).t) # <<>> THEN OnTo(g, <<>>) ELSE Absent(g)
           off == IF kind = "hits" THEN Absent(g) ELSE Fail
<1>1. Does(g, "count") /\ Reads(g, FALSE, on, off)
  BY DEF Count
<1>2. Goes(g, off, {Cur(g).t}) /\ off.ok \in BOOLEAN
  BY <1>1, AbsentGoes, FailGoes
<1>3. Goes(g, on, {}) /\ on.ok = TRUE
  <2>1. CASE Docs(Cur(g).t) # <<>>
    BY <2>1, NextGoes DEF OnTo
  <2>2. CASE Docs(Cur(g).t) = <<>>
    <3>1. Cur(g).t \notin full[g]
      BY <2>2, FullThere
    <3> QED BY <1>1, <2>2, <3>1, AbsentGoes
  <2> QED BY <2>1, <2>2
<1> HIDE DEF on, off
<1> QED BY <1>1, <1>2, <1>3, ReadsKeep

LEMMA StartStepKeeps ==
  ASSUME TypeInv, KeepInv, NEW g \in Gates, Starts(g), Step(g)
  PROVE  KeepInv' /\ LeftAlone(g)
<1>1. ASSUME NEW c, c \notin StartCalls PROVE ~Does(g, c)
  BY <1>1, CurStart
<1>2. ~(PutMapping(g) \/ DropColl(g) \/ DeleteDecl(g) \/ UpdateWhere(g) \/ DeleteWhere(g) \/ Search(g)
        \/ PushCols(g) \/ GetDecl(g))
  BY <1>1 DEF StartCalls, PutMapping, DropColl, DeleteDecl, UpdateWhere, DeleteWhere, Search, PushCols, GetDecl
<1> QED
  BY <1>2, CreateCollKeeps, IndexDocKeeps, InsertManyKeeps, ReadDeclsKeeps, CountDeclsKeeps, ListNamesKeeps,
     MappingKeeps, SampleKeeps, DeclIndexExistsKeeps, DeclIndexCreateKeeps, PutDeclKeeps, InsertDeclKeeps,
     InsertDeclsKeeps, ExistsIndexKeeps, CountKeeps, EnsureKeeps
  DEF Step

(* what a call changes of the other gateways *)
Others(g) ==
  /\ kind' = kind /\ faults' \in {faults, faults + 1}
  /\ \A x \in Gates \ {g} : /\ up'[x] = up[x] /\ job'[x] = job[x] /\ todo'[x] = todo[x]
                            /\ got'[x] = got[x] /\ made'[x] = made[x]
  /\ up'[g] \in {up[g], "down"} /\ job'[g] \in {job[g], Nothing}
  /\ \A x \in Gates : known'[x] = known[x] \cap ToSet(decls') /\ full'[x] \subseteq full[x] \cap Filled'
  /\ \A x \in Gates : Reading(x)' => seen'[x] = Both(seen[x], Moment') /\ always'[x] \subseteq always[x] \cap Listed'

LEMMA PerformOthers ==
  ASSUME TypeInv, NEW g \in Gates, NEW bad, NEW new, NEW on, NEW off, Perform(g, bad, new, on, off)
  PROVE  Others(g)
<1> PICK answered \in BOOLEAN :
      LET missed == IF answered THEN {} ELSE {Cur(g).t} IN
      /\ seen' = [x \in Gates |-> IF job'[x].do \in {"describe", "scan"} THEN Both(seen[x], Moment') ELSE NoMoment]
      /\ always' = [x \in Gates |-> IF job'[x].do \in {"describe", "scan"}
                                    THEN (always[x] \cap Listed') \ (IF x = g THEN missed ELSE {}) ELSE {}]
      /\ known' = [x \in Gates |-> known[x] \cap ToSet(decls')]
      /\ full' = [x \in Gates |-> (full[x] \cap Filled') \ (IF x = g THEN missed ELSE {})]
  BY DEF Perform
<1>1. (\E q : todo' = [todo EXCEPT ![g] = q]) /\ (\E xs : got' = [got EXCEPT ![g] = xs])
  <2>1. PICK r : todo' = [todo EXCEPT ![g] = r.todo] /\ got' = [got EXCEPT ![g] = r.got]
    BY DEF Perform
  <2> QED BY <2>1
<1>2. \E b : made' = [made EXCEPT ![g] = b]
  BY DEF Perform
<1>3. /\ up' = up \/ up' = [up EXCEPT ![g] = "down"]
      /\ job' = job \/ job' = [job EXCEPT ![g] = Nothing]
      /\ kind' = kind /\ faults' \in {faults, faults + 1}
  BY DEF Perform
<1>4. \A x \in Gates \ {g} : todo'[x] = todo[x] /\ got'[x] = got[x]
  BY <1>1
<1>5. \A x \in Gates \ {g} : made'[x] = made[x]
  BY <1>2
<1>6. /\ \A x \in Gates \ {g} : up'[x] = up[x] /\ job'[x] = job[x]
      /\ up'[g] \in {up[g], "down"} /\ job'[g] \in {job[g], Nothing}
  BY <1>3 DEF TypeInv
<1>7. \A x \in Gates : known'[x] = known[x] \cap ToSet(decls') /\ full'[x] \subseteq full[x] \cap Filled'
  OBVIOUS
<1>8. \A x \in Gates : Reading(x)' => seen'[x] = Both(seen[x], Moment') /\ always'[x] \subseteq always[x] \cap Listed'
  BY DEF Reading
<1> QED BY <1>3, <1>4, <1>5, <1>6, <1>7, <1>8 DEF Others

LEMMA StepOthers ==
  ASSUME TypeInv, NEW g \in Gates, Step(g)
  PROVE  Others(g)
<1>0. \A bad, new, on, off : Perform(g, bad, new, on, off) \/ Reads(g, bad, on, off) => Others(g)
  BY PerformOthers DEF Others, Reads
<1>1. CreateColl(g) => Others(g)       BY <1>0 DEF CreateColl
<1>2. PutMapping(g) => Others(g)       BY <1>0 DEF PutMapping
<1>3. DropColl(g) => Others(g)         BY <1>0 DEF DropColl
<1>4. DeleteDecl(g) => Others(g)       BY <1>0 DEF DeleteDecl
<1>5. IndexDoc(g) => Others(g)         BY <1>0 DEF IndexDoc
<1>6. InsertMany(g) => Others(g)       BY <1>0 DEF InsertMany
<1>7. UpdateWhere(g) => Others(g)      BY <1>0 DEF UpdateWhere
<1>8. DeleteWhere(g) => Others(g)      BY <1>0 DEF DeleteWhere
<1>9. Search(g) => Others(g)           BY <1>0 DEF Search
<1>10. ReadDecls(g) => Others(g)       BY <1>0 DEF ReadDecls
<1>11. CountDecls(g) => Others(g)      BY <1>0 DEF CountDecls
<1>12. ListNames(g) => Others(g)       BY <1>0 DEF ListNames
<1>13. Mapping(g) => Others(g)         BY <1>0 DEF Mapping
<1>14. Sample(g) => Others(g)          BY <1>0 DEF Sample
<1>15. DeclIndexExists(g) => Others(g) BY <1>0 DEF DeclIndexExists
<1>16. DeclIndexCreate(g) => Others(g) BY <1>0 DEF DeclIndexCreate
<1>17. PutDecl(g) => Others(g)         BY <1>0 DEF PutDecl
<1>18. InsertDecl(g) => Others(g)      BY <1>0 DEF InsertDecl
<1>19. InsertDecls(g) => Others(g)     BY <1>0 DEF InsertDecls
<1>20. PushCols(g) => Others(g)        BY <1>0 DEF PushCols
<1>21. GetDecl(g) => Others(g)         BY <1>0 DEF GetDecl
<1>22. ExistsIndex(g) => Others(g)     BY <1>0 DEF ExistsIndex
<1>23. Count(g) => Others(g)           BY <1>0 DEF Count
<1>24. Ensure(g) => Others(g)          BY <1>0 DEF Ensure
<1> QED BY <1>1, <1>2, <1>3, <1>4, <1>5, <1>6, <1>7, <1>8, <1>9, <1>10, <1>11, <1>12, <1>13, <1>14, <1>15,
           <1>16, <1>17, <1>18, <1>19, <1>20, <1>21, <1>22, <1>23, <1>24 DEF Step

LEMMA StepKeeps ==
  ASSUME TypeInv, KeepInv, NEW g \in Gates, Step(g)
  PROVE  KeepInv'
<1>1. CASE Starts(g)
  BY <1>1, StartStepKeeps
<1>2. CASE ~Starts(g)
  <2>1. ASSUME NEW x \in Gates PROVE Keeps(x)'
    <3>1. Keeps(x) /\ Others(g)
      BY StepOthers DEF KeepInv
    <3>2. Starts(x)' => x # g /\ Starts(x)
      BY <1>2, <3>1 DEF Starts, Others
    <3>3. Starts(x)' => StartInv(todo[x], known'[x], full'[x], made[x])
      BY <3>1, <3>2, StartStays DEF Keeps, Others
    <3>4. Starts(x)' => StartInv(todo'[x], known'[x], full'[x], made'[x])
      BY <3>1, <3>2, <3>3 DEF Others
    <3> QED BY <3>1, <3>4 DEF Keeps, Others
  <2> QED BY <2>1 DEF KeepInv
<1> QED BY <1>1, <1>2

-----------------------------------------------------------------------------
(* Jobs, starts and crashes leave the store *)

LEMMA BeginKeeps ==
  ASSUME TypeInv, KeepInv, NEW g \in Gates, BeginRead(g) \/ BeginWrite(g) \/ BeginDDL(g)
  PROVE  KeepInv' /\ \A x \in Gates : Starts(x) => todo'[x] = todo[x]
<1> PICK do, t, calls : Begin(g, do, t, calls)
  BY DEF BeginRead, BeginWrite, BeginDDL
<1>1. /\ UNCHANGED <<coll, decls, up, known, full, made>> /\ up[g] = "serving"
      /\ \A x \in Gates \ {g} : todo'[x] = todo[x]
  BY DEF Begin, store, TypeInv
<1>2. ASSUME NEW x \in Gates PROVE Keeps(x)'
  <2>1. Keeps(x) /\ Filled' = Filled
    BY <1>1 DEF KeepInv, Filled, Docs, There
  <2> QED BY <1>1, <2>1 DEF Keeps, Starts
<1> QED BY <1>1, <1>2 DEF KeepInv, Starts

LEMMA RestKeeps ==
  ASSUME TypeInv, KeepInv, NEW g \in Gates, Answer(g) \/ Ready(g) \/ Crash(g)
  PROVE  KeepInv' /\ UNCHANGED <<coll, decls>>
<1>1. Rest(g)
  BY DEF Answer, Ready, Crash
<1>2. /\ UNCHANGED <<coll, decls>> /\ known'[g] = {} /\ full'[g] = {}
      /\ \A x \in Gates \ {g} : known'[x] = known[x] /\ full'[x] = full[x] /\ made'[x] = made[x]
  BY <1>1 DEF Rest, store, TypeInv
<1>3. up'[g] # "starting" /\ \A x \in Gates \ {g} : up'[x] = up[x] /\ todo'[x] = todo[x]
  <2>1. CASE Answer(g)
    BY <2>1 DEF Answer, TypeInv
  <2>2. CASE Ready(g)
    BY <2>2 DEF Ready, TypeInv
  <2>3. CASE Crash(g)
    BY <2>3 DEF Crash, TypeInv
  <2> QED BY <2>1, <2>2, <2>3
<1>4. ASSUME NEW x \in Gates PROVE Keeps(x)'
  <2>1. Keeps(x) /\ Filled' = Filled
    BY <1>2 DEF KeepInv, Filled, Docs, There
  <2>2. CASE x = g
    BY <1>2, <1>3, <2>2 DEF Keeps, Starts
  <2>3. CASE x # g
    BY <1>2, <1>3, <2>1, <2>3 DEF Keeps, Starts
  <2> QED BY <2>2, <2>3
<1> QED BY <1>2, <1>4 DEF KeepInv

LEMMA StartBegins ==
  ASSUME NEW k, NEW f, NEW m
  PROVE  StartInv(Seed, k, f, m) /\ StartInv(EnsureCatalog, k, f, m)
<1>1. ASSUME NEW q, List(q), \A c \in ToSet(q) : c.c \in {"exists", "count", "countDecls", "readDecls"}
      PROVE  StartInv(q, k, f, m)
  <2>1. \A c \in ToSet(q) : StartCall(c, k, f) /\ c.c # "putDecl"
    BY <1>1 DEF StartCall, StartCalls
  <2> QED BY <1>1, <2>1, ListElems, PutsNone DEF StartInv
<1> DEFINE asks(c) == [i \in DOMAIN Demo |-> Call(c, Demo[i].name, Demo[i])]
           one == <<Call("countDecls", NoTable, Empty)>>
<1>2. ASSUME NEW c \in {"exists", "count"} PROVE List(asks(c)) /\ \A e \in ToSet(asks(c)) : e.c = c
  <2> DEFINE s == asks(c)
  <2>1. /\ DOMAIN s = 1..Len(Demo) /\ s = [i \in 1..Len(Demo) |-> s[i]]
        /\ \A i \in 1..Len(Demo) : s[i] = Call(c, Demo[i].name, Demo[i])
    BY DemoList
  <2> HIDE DEF s
  <2>2. List(s) /\ \A e \in ToSet(s) : e.c = c
    BY <2>1, DemoList, FnList DEF ToSet, Call
  <2> QED BY <2>2 DEF s
<1> HIDE DEF asks
<1>3. List(one) /\ \A e \in ToSet(one) : e.c = "countDecls"
  BY OneList DEF Call
<1> HIDE DEF one
<1>4. Seed \in {asks("exists"), asks("count") \o one, asks("count") \o <<>>}
  BY DEF Seed, asks, one
<1>5. StartInv(Seed, k, f, m)
  <2>1. List(asks("exists")) /\ \A e \in ToSet(asks("exists")) : e.c = "exists"
    BY <1>2
  <2>2. List(asks("count")) /\ \A e \in ToSet(asks("count")) : e.c = "count"
    BY <1>2
  <2>3. /\ List(asks("count") \o one) /\ ToSet(asks("count") \o one) = ToSet(asks("count")) \cup ToSet(one)
        /\ List(asks("count") \o <<>>) /\ ToSet(asks("count") \o <<>>) = ToSet(asks("count")) \cup {}
    BY <1>3, <2>2, NoList, ListConcat
  <2>4. /\ StartInv(asks("exists"), k, f, m) /\ StartInv(asks("count") \o one, k, f, m)
        /\ StartInv(asks("count") \o <<>>, k, f, m)
    BY <1>1, <1>3, <2>1, <2>2, <2>3
  <2> QED BY <1>4, <2>4
<1>6. List(EnsureCatalog) /\ \A e \in ToSet(EnsureCatalog) : e.c \in {"readDecls", "countDecls"}
  BY NoList, OneList DEF EnsureCatalog, Call
<1>7. StartInv(EnsureCatalog, k, f, m)
  BY <1>1, <1>6
<1> QED BY <1>5, <1>7

LEMMA StartsKeeps ==
  ASSUME TypeInv, KeepInv, NEW g \in Gates, Start(g)
  PROVE  KeepInv' /\ UNCHANGED <<coll, decls>>
<1>1. /\ UNCHANGED <<coll, decls, made>>
      /\ known'[g] = ToSet(decls) /\ full'[g] = Filled
      /\ todo'[g] \in {Seed, EnsureCatalog}
      /\ \A x \in Gates \ {g} : known'[x] = known[x] /\ full'[x] = full[x] /\ up'[x] = up[x] /\ todo'[x] = todo[x]
  BY DEF Start, store, TypeInv
<1>2. ASSUME NEW x \in Gates PROVE Keeps(x)'
  <2>1. Keeps(x) /\ Filled' = Filled
    BY <1>1 DEF KeepInv, Filled, Docs, There
  <2>2. CASE x = g
    BY <1>1, <2>1, <2>2, StartBegins DEF Keeps
  <2>3. CASE x # g
    BY <1>1, <2>1, <2>3 DEF Keeps, Starts
  <2> QED BY <2>2, <2>3
<1> QED BY <1>1, <1>2 DEF KeepInv

LEMMA KeepNext ==
  ASSUME TypeInv, KeepInv, [Next]_vars
  PROVE  KeepInv'
<1>1. ASSUME UNCHANGED vars PROVE KeepInv'
  <2>1. UNCHANGED <<coll, decls, up, todo, known, full, made>>
    BY <1>1 DEF vars, store, history
  <2> QED BY <2>1 DEF KeepInv, Keeps, Starts, Filled, Docs, There
<1> QED BY <1>1, StepKeeps, BeginKeeps, RestKeeps, StartsKeeps DEF Next, Stop

LEMMA KeepInvariant == Spec => []KeepInv
<1>1. Init => KeepInv
  BY DEF Init, KeepInv, Keeps, Starts
<1>2. TypeInv /\ KeepInv /\ [Next]_vars => KeepInv'
  BY KeepNext
<1> QED BY <1>1, <1>2, TypesInvariant, PTL DEF Spec

(* What a starting gateway finds it leaves alone, whoever else starts or works at the same time, *)
(* whatever fails: a table that has had documents ever since it began, and whose count or        *)
(* existence it was told, and a declaration that has been there ever since, of a table it did    *)
(* not create itself (seed, seedIfEmpty, seedCatalog, EnsureCatalog).                            *)
THEOREM StartKeepsCorrect == Spec => StartKeeps
<1> DEFINE A == \A g \in Gates : Starts(g) /\ todo'[g] # todo[g] =>
                  /\ \A t \in full[g] : t \in DOMAIN coll' /\ coll'[t] = coll[t]
                  /\ \A d \in known[g] : d \in ToSet(decls') \/ d.table \in made[g]
<1>1. TypeInv /\ KeepInv /\ [Next]_vars => A
  <2> SUFFICES ASSUME TypeInv, KeepInv, [Next]_vars, NEW g \in Gates, Starts(g), todo'[g] # todo[g]
               PROVE  LeftAlone(g)
    BY DEF LeftAlone
  <2>1. ASSUME UNCHANGED <<coll, decls>> PROVE LeftAlone(g)
    BY <2>1, SafeNow DEF Safe, Now, LeftAlone
  <2>2. UNCHANGED vars => LeftAlone(g)
    BY DEF vars
  <2>3. ASSUME NEW x \in Gates, Step(x) PROVE LeftAlone(g)
    <3>1. CASE x = g
      BY <2>3, <3>1, StartStepKeeps
    <3>2. CASE x # g
      BY <2>3, <3>2, StepOthers DEF Others
    <3> QED BY <3>1, <3>2
  <2>4. ASSUME NEW x \in Gates, BeginRead(x) \/ BeginWrite(x) \/ BeginDDL(x) PROVE LeftAlone(g)
    BY <2>4, BeginKeeps
  <2>5. ASSUME NEW x \in Gates, Answer(x) \/ Ready(x) \/ Crash(x) \/ Start(x) PROVE LeftAlone(g)
    BY <2>5, <2>1, RestKeeps, StartsKeeps
  <2> QED BY <2>2, <2>3, <2>4, <2>5 DEF Next, Stop
<1> QED BY <1>1, TypesInvariant, KeepInvariant, PTL DEF Spec, StartKeeps

-----------------------------------------------------------------------------
(* What a client is told.  While a gateway reads, the calls it still makes *)
(* are those of its kind; what it has so far it saw, each table at some    *)
(* moment; and a table that was there all the time it has, or still asks   *)
(* for.                                                                    *)

ReadCall(k, do, c, ds) ==
  \/ do = "describe" /\ c.c = "readDecls" /\ k \in {"hybrid", "declared"}
  \/ do = "describe" /\ c.c = "listNames" /\ k \in {"hits", "sampled"}
  \/ do = "describe" /\ c.c = "mapping"   /\ k = "hybrid" /\ \E d \in ds : d.table = c.t /\ d.key = c.x
  \/ do = "describe" /\ c.c = "sample"    /\ k \in {"hits", "sampled"}
  \/ do = "scan" /\ c.c = "getDecl" /\ k \in {"hybrid", "declared"}
  \/ do = "scan" /\ c.c = "mapping" /\ k = "hybrid"
  \/ do = "scan" /\ c.c = "sample"  /\ k = "sampled"
  \/ do = "scan" /\ c.c = "search"

(* f calls have failed *)
GotTrue(k, do, x, s, f) ==
  CASE k = "declared" -> \E d \in s.decls : x = ToTable(d)
    [] k = "static"   -> x \in StaticSchema
    [] k = "hits" /\ do = "scan" -> TRUE
    [] k = "sampled"  -> <<x.name, x.cols>> \in s.cols \/ (f > 0 /\ <<x.name, x.cols>> \in s.part)
    [] OTHER -> /\ <<x.name, x.cols>> \in s.cols
                /\ k = "hybrid" /\ do = "describe" => \E d \in s.decls : d.table = x.name /\ d.key = x.key

First(q) == q # <<>> /\ Head(q).c \in {"readDecls", "listNames"}

Covered(q, xs, names) ==
  \A n \in names : (\E x \in xs : x.name = n) \/ (\E c \in ToSet(q) : c.t = n)

Seeing(s, m) == m.decls \subseteq s.decls /\ m.cols \subseteq s.cols /\ m.part \subseteq s.part

ReadsInv(g) ==
  /\ up[g] = "serving"
  /\ Seeing(seen[g], Moment)
  /\ \A c \in ToSet(todo[g]) : ReadCall(kind, job[g].do, c, seen[g].decls)
  /\ \A x \in got[g] : GotTrue(kind, job[g].do, x, seen[g], faults)
  /\ always[g] \subseteq Listed
  /\ job[g].do = "describe" => First(todo[g]) \/ Covered(todo[g], got[g], always[g])
ReadInv == faults \in Nat /\ \A g \in Gates : Reading(g) => ReadsInv(g)

(* what r tells once f calls have failed, and what is still to be asked *)
Tells(g, r, missed, f) ==
  r.ok =>
    /\ \A c \in ToSet(r.todo) : ReadCall(kind, job[g].do, c, seen[g].decls)
    /\ \A x \in r.got : GotTrue(kind, job[g].do, x, seen[g], f)
    /\ job[g].do = "describe" => Covered(r.todo, r.got, always[g] \ missed)

LEMMA SeenMore ==
  ASSUME NEW s, NEW m, NEW f \in Nat, NEW more \in Nat, f <= more
  PROVE  /\ Seeing(Both(s, m), m)
         /\ \A k, do, c : ReadCall(k, do, c, s.decls) => ReadCall(k, do, c, Both(s, m).decls)
         /\ \A k, do, x : GotTrue(k, do, x, s, f) => GotTrue(k, do, x, Both(s, m), more)
<1>1. /\ s.decls \subseteq Both(s, m).decls /\ s.cols \subseteq Both(s, m).cols /\ s.part \subseteq Both(s, m).part
      /\ Seeing(Both(s, m), m)
  BY DEF Both, Seeing
<1>2. \A k, do, c : ReadCall(k, do, c, s.decls) => ReadCall(k, do, c, Both(s, m).decls)
  BY <1>1 DEF ReadCall
<1>3. \A k, do, x : GotTrue(k, do, x, s, f) => GotTrue(k, do, x, Both(s, m), more)
  BY <1>1 DEF GotTrue
<1> QED BY <1>1, <1>2, <1>3

(* a gateway that reads goes on reading while others act *)
LEMMA OthersRead ==
  ASSUME TypeInv, ReadInv, NEW g \in Gates, Others(g), NEW x \in Gates, x # g \/ ~Reading(g), Reading(x)'
  PROVE  ReadsInv(x)'
<1>1. x # g /\ Reading(x)
  BY DEF Others, Reading, Nothing
<1>8. faults \in Nat /\ faults' \in Nat /\ faults <= faults'
  BY DEF Others, ReadInv
<1>2. /\ up'[x] = up[x] /\ job'[x] = job[x] /\ todo'[x] = todo[x] /\ got'[x] = got[x] /\ kind' = kind
      /\ seen'[x] = Both(seen[x], Moment') /\ always'[x] \subseteq always[x] \cap Listed'
  BY <1>1 DEF Others
<1>3. ReadsInv(x)
  BY <1>1 DEF ReadInv
<1>4. Seeing(seen'[x], Moment')
  BY <1>2, <1>8, SeenMore
<1>5. \A c \in ToSet(todo'[x]) : ReadCall(kind', job'[x].do, c, seen'[x].decls)
  BY <1>2, <1>3, <1>8, SeenMore DEF ReadsInv
<1>6. \A y \in got'[x] : GotTrue(kind', job'[x].do, y, seen'[x], faults')
  BY <1>2, <1>3, <1>8, SeenMore DEF ReadsInv
<1>7. job'[x].do = "describe" => First(todo'[x]) \/ Covered(todo'[x], got'[x], always'[x])
  BY <1>2, <1>3 DEF ReadsInv, Covered
<1> QED BY <1>2, <1>3, <1>4, <1>5, <1>6, <1>7 DEF ReadsInv

LEMMA OutcomeReads ==
  ASSUME TypeInv, ReadInv, NEW g \in Gates, Reading(g), NEW r, NEW missed, r.ok \in BOOLEAN, faults' \in Nat,
         Outcome(g, Now, r), History(g, missed), Tells(g, r, missed, faults'), Reading(g)'
  PROVE  ReadsInv(g)'
<1>1. ReadsInv(g)
  BY DEF ReadInv
<1>2. r.ok /\ job' = job /\ up' = up
  BY DEF Outcome, Reading, TypeInv, Nothing
<1>3. todo'[g] = r.todo /\ got'[g] = r.got /\ kind' = kind /\ UNCHANGED <<coll, decls>>
  BY DEF Outcome, TypeInv, Now
<1>4. Listed' = Listed
  BY <1>3 DEF Listed, Declared, At, There, StaticSchema
<1>5. seen'[g] = Both(seen[g], Moment') /\ always'[g] = (always[g] \cap Listed') \ missed
  BY DEF History, Reading
<1>6. Seeing(seen'[g], Moment')
  BY <1>5, SeenMore DEF ReadInv
<1>7. \A c \in ToSet(todo'[g]) : ReadCall(kind', job'[g].do, c, seen'[g].decls)
  BY <1>2, <1>3, <1>5, SeenMore DEF Tells
<1>8. \A x \in got'[g] : GotTrue(kind', job'[g].do, x, seen'[g], faults')
  BY <1>2, <1>3, <1>5, SeenMore DEF Tells
<1>9. job'[g].do = "describe" => Covered(todo'[g], got'[g], always'[g])
  BY <1>2, <1>3, <1>5 DEF Tells, Covered
<1> QED BY <1>1, <1>2, <1>4, <1>5, <1>6, <1>7, <1>8, <1>9 DEF ReadsInv

LEMMA ReadsRead ==
  ASSUME TypeInv, ReadInv, NEW g \in Gates, Reading(g), NEW bad \in BOOLEAN, NEW on, NEW off, Reads(g, bad, on, off),
         on.ok \in BOOLEAN, off.ok \in BOOLEAN, ~bad => Tells(g, on, {}, faults),
         Tells(g, off, {Cur(g).t}, IF bad THEN faults ELSE faults + 1)
  PROVE  ReadInv'
<1>1. Others(g)
  BY PerformOthers DEF Reads
<1>2. \/ ~bad /\ Outcome(g, Now, on) /\ History(g, {}) /\ faults' = faults
      \/ /\ Outcome(g, Now, off) /\ History(g, {Cur(g).t})
         /\ faults' = IF bad THEN faults ELSE faults + 1
  BY PerformOutcomes DEF Reads
<1>5. faults' \in Nat
  BY <1>1 DEF Others, ReadInv
<1>3. Reading(g)' => ReadsInv(g)'
  BY <1>2, <1>5, OutcomeReads
<1>4. ASSUME NEW x \in Gates, x # g, Reading(x)' PROVE ReadsInv(x)'
  BY <1>1, <1>4, OthersRead
<1> QED BY <1>3, <1>4, <1>5 DEF ReadInv

LEMMA ReadCur ==
  ASSUME TypeInv, ReadInv, NEW g \in Gates, Reading(g), NEW c, Does(g, c)
  PROVE  /\ ReadCall(kind, job[g].do, Cur(g), seen[g].decls) /\ Cur(g).c = c /\ todo[g] # <<>>
         /\ List(todo[g]) /\ List(Tail(todo[g])) /\ ToSet(todo[g]) = {Cur(g)} \cup ToSet(Tail(todo[g]))
         /\ ReadsInv(g) /\ up[g] = "serving"
<1>1. ReadsInv(g)
  BY DEF ReadInv
<1>2. List(todo[g])
  BY DEF TypeInv, GateOK, CallsOK
<1>3. Cur(g).c = c /\ todo[g] # <<>>
  BY DEF Does
<1>4. List(Tail(todo[g])) /\ ToSet(todo[g]) = {Cur(g)} \cup ToSet(Tail(todo[g]))
  BY <1>2, <1>3, ListTail DEF Cur
<1> QED BY <1>1, <1>2, <1>3, <1>4 DEF ReadsInv

LEMMA TellsFail ==
  ASSUME NEW g
  PROVE  \A missed, f : Tells(g, Fail, missed, f)
  BY DEF Tells, Fail

(* one call done: the calls left, and the tables it told of *)
LEMMA TellsNext ==
  ASSUME TypeInv, ReadInv, NEW g \in Gates, Reading(g), NEW c, Does(g, c), c \notin {"readDecls", "listNames"},
         NEW r, NEW xs, r.todo = <<>> \o Tail(todo[g]), r.got = got[g] \cup xs,
         NEW f \in {faults, faults + 1}, \A x \in xs : GotTrue(kind, job[g].do, x, seen[g], f),
         NEW missed, job[g].do = "describe" /\ Cur(g).t \in always[g] \ missed => \E x \in xs : x.name = Cur(g).t
  PROVE  Tells(g, r, missed, f)
<1>1. ReadsInv(g) /\ List(Tail(todo[g])) /\ ToSet(todo[g]) = {Cur(g)} \cup ToSet(Tail(todo[g])) /\ Cur(g).c = c
  BY ReadCur
<1>2. ToSet(r.todo) = ToSet(Tail(todo[g]))
  BY <1>1, NoList, ListConcat
<1>3. \A e \in ToSet(r.todo) : ReadCall(kind, job[g].do, e, seen[g].decls)
  BY <1>1, <1>2 DEF ReadsInv
<1>4. \A x \in r.got : GotTrue(kind, job[g].do, x, seen[g], f)
  <2>1. faults \in Nat /\ f \in Nat /\ faults <= f
    BY DEF ReadInv
  <2>2. ASSUME NEW x \in got[g] PROVE GotTrue(kind, job[g].do, x, seen[g], f)
    <3>1. GotTrue(kind, job[g].do, x, seen[g], faults)
      BY <1>1 DEF ReadsInv
    <3> QED BY <2>1, <3>1 DEF GotTrue
  <2> QED BY <2>2
<1>5. ~First(todo[g])
  BY <1>1 DEF First, Cur
<1>6. job[g].do = "describe" => Covered(r.todo, r.got, always[g] \ missed)
  <2> SUFFICES ASSUME job[g].do = "describe", NEW n \in always[g] \ missed
               PROVE  (\E x \in r.got : x.name = n) \/ (\E e \in ToSet(r.todo) : e.t = n)
    BY DEF Covered
  <2>1. (\E x \in got[g] : x.name = n) \/ (\E e \in ToSet(todo[g]) : e.t = n)
    BY <1>1, <1>5 DEF ReadsInv, Covered
  <2> QED BY <1>1, <1>2, <2>1
<1> QED BY <1>3, <1>4, <1>6 DEF Tells

(* the first call of a description done: the calls that make it up *)
LEMMA TellsFirst ==
  ASSUME TypeInv, ReadInv, NEW g \in Gates, Reading(g), NEW c, Does(g, c),
         NEW calls, List(calls), \A e \in ToSet(calls) : ReadCall(kind, job[g].do, e, seen[g].decls),
         \A n \in Listed : \E e \in ToSet(calls) : e.t = n
  PROVE  Tells(g, OnTo(g, calls), {}, faults) /\ OnTo(g, calls).ok = TRUE
<1> DEFINE r == OnTo(g, calls)
<1>1. ReadsInv(g) /\ List(Tail(todo[g])) /\ ToSet(todo[g]) = {Cur(g)} \cup ToSet(Tail(todo[g]))
  BY ReadCur
<1>2. r.ok = TRUE /\ r.todo = calls \o Tail(todo[g]) /\ r.got = got[g]
  BY DEF OnTo
<1> HIDE DEF r
<1>3. ToSet(r.todo) = ToSet(calls) \cup ToSet(Tail(todo[g]))
  BY <1>1, <1>2, ListConcat
<1>4. \A e \in ToSet(r.todo) : ReadCall(kind, job[g].do, e, seen[g].decls)
  BY <1>1, <1>3 DEF ReadsInv
<1>5. \A x \in r.got : GotTrue(kind, job[g].do, x, seen[g], faults)
  BY <1>1, <1>2 DEF ReadsInv
<1>6. Covered(r.todo, r.got, always[g] \ {})
  BY <1>1, <1>3 DEF ReadsInv, Covered
<1> QED BY <1>2, <1>4, <1>5, <1>6 DEF Tells, r

LEMMA OnToIs == \A g : LET r == OnTo(g, <<>>) IN r.ok = TRUE /\ r.todo = <<>> \o Tail(todo[g]) /\ r.got = got[g] \cup {}
  BY DEF OnTo

LEMMA WithIs ==
  \A g, xs : LET r == With(OnTo(g, <<>>), xs) IN r.ok = TRUE /\ r.todo = <<>> \o Tail(todo[g]) /\ r.got = got[g] \cup xs
  BY DEF OnTo, With

LEMMA SearchReads ==
  ASSUME TypeInv, ReadInv, NEW g \in Gates, Reading(g), Search(g)
  PROVE  ReadInv'
<1> DEFINE t == Cur(g).t
           cols == CASE kind = "hits"   -> {[name |-> t, cols |-> ColumnsFromHits(FirstDocs(t, ScanSize)), key |-> {}]}
                     [] kind = "static" -> {x \in StaticSchema : x.name = t}
                     [] OTHER           -> {}
           bad == Elastic /\ ~There(t)
           on == With(OnTo(g, <<>>), cols)
<1>1. Does(g, "search") /\ Reads(g, bad, on, Fail)
  BY DEF Search
<1>2. job[g].do = "scan"
  BY <1>1, ReadCur DEF ReadCall
<1>3. \A x \in cols : GotTrue(kind, job[g].do, x, seen[g], faults)
  BY <1>2 DEF GotTrue
<1>4. bad \in BOOLEAN
  OBVIOUS
<1> HIDE DEF cols, bad
<1>5. on.ok = TRUE /\ on.todo = <<>> \o Tail(todo[g]) /\ on.got = got[g] \cup cols
  BY WithIs
<1> HIDE DEF on
<1>6. Tells(g, on, {}, faults)
  BY <1>1, <1>2, <1>3, <1>5, TellsNext
<1> QED BY <1>1, <1>4, <1>5, <1>6, TellsFail, FailGoes, ReadsRead

LEMMA GetDeclReads ==
  ASSUME TypeInv, ReadInv, NEW g \in Gates, Reading(g), GetDecl(g)
  PROVE  ReadInv'
<1> DEFINE t == Cur(g).t
           xs == IF kind = "declared" /\ Declared(t) THEN {ToTable(TheDecl(t))} ELSE {}
           on == IF kind = "declared" /\ Declared(t) THEN With(OnTo(g, <<>>), {ToTable(TheDecl(t))}) ELSE OnTo(g, <<>>)
<1>1. Does(g, "getDecl") /\ Reads(g, ~Declared(t), on, Fail)
  BY DEF GetDecl
<1>2. job[g].do = "scan"
  BY <1>1, ReadCur DEF ReadCall
<1>3. \A x \in xs : GotTrue(kind, job[g].do, x, seen[g], faults)
  <2>1. Declared(t) => TheDecl(t) \in ToSet(decls)
    BY FirstDecl
  <2>2. ToSet(decls) \subseteq seen[g].decls
    BY <1>1, ReadCur DEF ReadsInv, Seeing, Moment
  <2> QED BY <2>1, <2>2 DEF GotTrue
<1>4. on.ok = TRUE /\ on.todo = <<>> \o Tail(todo[g]) /\ on.got = got[g] \cup xs
  BY WithIs, OnToIs
<1>5. (~Declared(t)) \in BOOLEAN
  OBVIOUS
<1> HIDE DEF on, xs
<1>6. Tells(g, on, {}, faults)
  BY <1>1, <1>2, <1>3, <1>4, TellsNext
<1> QED BY <1>1, <1>4, <1>5, <1>6, TellsFail, FailGoes, ReadsRead

LEMMA MappingReads ==
  ASSUME TypeInv, ReadInv, NEW g \in Gates, Reading(g), Mapping(g)
  PROVE  ReadInv'
<1> DEFINE t == Cur(g).t
           cols == IF There(t) THEN MappingColumns(t) ELSE Empty
           d == Declaration(t, Empty, {"id"} \cap DOMAIN cols)
           found == IF cols = Empty THEN {} ELSE {[name |-> t, cols |-> cols, key |-> Cur(g).x]}
           one == {[name |-> t, cols |-> cols, key |-> {}]}
           on == CASE job[g].do = "describe" -> With(OnTo(g, <<>>), found)
                   [] job[g].do = "scan" -> With(OnTo(g, <<>>), one)
                   [] OTHER -> OnTo(g, WriteCatalog(d))
           off == IF job[g].do = "describe" THEN OnTo(g, <<>>) ELSE Fail
           f == IF ~There(t) THEN faults ELSE faults + 1
<1>1. Does(g, "mapping") /\ Reads(g, ~There(t), on, off)
  BY DEF Mapping
<1>2. /\ kind = "hybrid" /\ t \in TableNames /\ job[g].do \in {"describe", "scan"}
      /\ job[g].do = "describe" => \E e \in seen[g].decls : e.table = t /\ e.key = Cur(g).x
  BY <1>1, ReadCur, CurOK DEF ReadCall, NoTableCalls
<1>3. ReadsInv(g)
  BY <1>1, ReadCur
<1>4. There(t) => cols = ColumnsNow(t) /\ <<t, cols>> \in seen[g].cols
  BY <1>2, <1>3 DEF ColumnsNow, ReadsInv, Seeing, Moment
<1>5. There(t) /\ t \in always[g] => cols # Empty
  <2> SUFFICES ASSUME There(t), t \in always[g] PROVE DOMAIN cols # {}
    BY DEF Empty
  <2> QED BY <1>2, <1>3 DEF ReadsInv, Listed, MappingColumns
<1> HIDE DEF cols
<1>6. There(t) => /\ \A x \in found : job[g].do = "describe" => GotTrue(kind, job[g].do, x, seen[g], faults)
                  /\ \A x \in one : job[g].do = "scan" => GotTrue(kind, job[g].do, x, seen[g], faults)
  BY <1>2, <1>4 DEF GotTrue
<1>7. There(t) => Tells(g, on, {}, faults)
  <2> SUFFICES ASSUME There(t) PROVE Tells(g, on, {}, faults)
    OBVIOUS
  <2>1. CASE job[g].do = "describe"
    <3>1. on.todo = <<>> \o Tail(todo[g]) /\ on.got = got[g] \cup found
      BY <2>1, WithIs
    <3>2. t \in always[g] \ {} => \E x \in found : x.name = t
      BY <1>5
    <3> HIDE DEF on, found
    <3> QED BY <1>1, <1>6, <2>1, <3>1, <3>2, TellsNext
  <2>2. CASE job[g].do = "scan"
    <3>1. on.todo = <<>> \o Tail(todo[g]) /\ on.got = got[g] \cup one
      BY <2>2, WithIs
    <3> HIDE DEF on, one
    <3> QED BY <1>1, <1>6, <2>2, <3>1, TellsNext
  <2> QED BY <1>2, <2>1, <2>2
<1>8. Tells(g, off, {t}, f) /\ off.ok \in BOOLEAN
  <2>1. CASE job[g].do = "describe"
    <3> DEFINE xs == {}
               missed == {t}
    <3>1. off.ok = TRUE /\ off.todo = <<>> \o Tail(todo[g]) /\ off.got = got[g] \cup xs
      BY <2>1, OnToIs
    <3>2. Cur(g).t \notin always[g] \ missed /\ \A x \in xs : GotTrue(kind, job[g].do, x, seen[g], f)
      OBVIOUS
    <3>4. f \in {faults, faults + 1}
      OBVIOUS
    <3> HIDE DEF off, xs, missed, f
    <3>3. Tells(g, off, missed, f)
      BY <1>1, <3>1, <3>2, <3>4, TellsNext
    <3> QED BY <3>1, <3>3 DEF missed
  <2>2. CASE job[g].do = "scan"
    BY <2>2, TellsFail, FailGoes
  <2> QED BY <1>2, <2>1, <2>2
<1>9. on.ok \in BOOLEAN
  BY <1>2, WithIs
<1>10. (~There(t)) \in BOOLEAN
  OBVIOUS
<1> HIDE DEF on, off
<1> QED BY <1>1, <1>7, <1>8, <1>9, <1>10, ReadsRead

LEMMA SampleReads ==
  ASSUME TypeInv, ReadInv, NEW g \in Gates, Reading(g), Sample(g)
  PROVE  ReadInv'
<1> DEFINE t == Cur(g).t
           calls == <<Call("insertDecl", t, InferCatalogDoc(t, FirstDocs(t, SampleSize)))>>
           one(cols) == {[name |-> t, cols |-> cols, key |-> IF job[g].do = "scan" THEN {} ELSE {"_id"}]}
           told(cols) == With(OnTo(g, <<>>), one(cols))
           bad == kind = "hits" /\ ~There(t)
           on == IF kind = "declared" THEN OnTo(g, calls) ELSE told(ColumnsNow(t))
           cut == IF kind = "sampled" THEN {told(ColumnsOfFirst(t, n)) : n \in 0..SampleSize} ELSE {}
<1>1. PICK off \in {Fail} \cup cut : Does(g, "sample") /\ Reads(g, bad, on, off)
  BY DEF Sample
<1>2. /\ t \in TableNames /\ kind \in {"hits", "sampled"} /\ job[g].do \in {"describe", "scan"}
      /\ job[g].do = "scan" => kind = "sampled"
  BY <1>1, ReadCur, CurOK DEF ReadCall, NoTableCalls
<1>3. on = told(ColumnsNow(t))
  BY <1>2
<1>4. ~bad => <<t, ColumnsNow(t)>> \in seen[g].cols
  BY <1>1, <1>2, ReadCur DEF ReadsInv, Seeing, Moment
<1>5. kind = "sampled" => \A n \in 0..SampleSize : <<t, ColumnsOfFirst(t, n)>> \in seen[g].part
  BY <1>1, <1>2, ReadCur DEF ReadsInv, Seeing, Moment
<1>6. faults \in Nat
  BY DEF ReadInv
<1>7. ~bad => \A x \in one(ColumnsNow(t)) : GotTrue(kind, job[g].do, x, seen[g], faults)
  BY <1>2, <1>4 DEF GotTrue
<1>8. kind = "sampled" =>
        \A n \in 0..SampleSize : \A x \in one(ColumnsOfFirst(t, n)) : GotTrue(kind, job[g].do, x, seen[g], faults + 1)
  BY <1>5, <1>6 DEF GotTrue
<1>9. ASSUME NEW cols, NEW f \in {faults, faults + 1}, \A x \in one(cols) : GotTrue(kind, job[g].do, x, seen[g], f),
             NEW missed
      PROVE  Tells(g, told(cols), missed, f)
  <2> DEFINE xs == one(cols)
             r == told(cols)
  <2>1. (\E x \in xs : x.name = t) /\ \A x \in xs : GotTrue(kind, job[g].do, x, seen[g], f)
    BY <1>9
  <2> HIDE DEF xs
  <2>2. r.todo = <<>> \o Tail(todo[g]) /\ r.got = got[g] \cup xs
    BY WithIs DEF xs
  <2> HIDE DEF r
  <2>3. Tells(g, r, missed, f)
    BY <1>1, <1>9, <2>1, <2>2, TellsNext
  <2> QED BY <2>3 DEF r
<1>10. \A cols : told(cols).ok = TRUE
  BY WithIs
<1>11. bad \in BOOLEAN /\ (kind = "sampled" => bad = FALSE)
  OBVIOUS
<1> HIDE DEF one, told, bad, on
<1>12. ~bad => Tells(g, on, {}, faults)
  BY <1>3, <1>6, <1>7, <1>9
<1>13. Tells(g, off, {t}, IF bad THEN faults ELSE faults + 1) /\ off.ok \in BOOLEAN
  <2>1. CASE off = Fail
    BY <2>1, TellsFail, FailGoes
  <2>2. CASE off # Fail
    <3>1. PICK n \in 0..SampleSize : kind = "sampled" /\ off = told(ColumnsOfFirst(t, n))
      BY <1>1, <2>2
    <3>3. Tells(g, off, {t}, faults + 1)
      BY <1>8, <1>9, <3>1
    <3> QED BY <1>10, <1>11, <3>1, <3>3
  <2> QED BY <2>1, <2>2
<1> HIDE DEF cut
<1> QED BY <1>1, <1>3, <1>10, <1>11, <1>12, <1>13, ReadsRead

LEMMA ListNamesReads ==
  ASSUME TypeInv, ReadInv, NEW g \in Gates, Reading(g), ListNames(g)
  PROVE  ReadInv'
<1> DEFINE ts == {t \in TableNames : There(t)}
           calls == Each(IF kind = "hybrid" THEN "mapping" ELSE "sample", Listing(ts))
<1>1. PICK bad \in BOOLEAN : Does(g, "listNames") /\ Reads(g, bad, OnTo(g, calls), Fail)
  BY DEF ListNames
<1>2. job[g].do = "describe" /\ kind \in {"hits", "sampled"}
  BY <1>1, ReadCur DEF ReadCall
<1>3. List(Listing(ts)) /\ ToSet(Listing(ts)) = ts /\ ts \subseteq TableNames
  BY TablesFinite, ListingIs
<1>4. List(calls) /\ ToSet(calls) = {Call("sample", t, Empty) : t \in ts}
  <2> HIDE DEF ts
  <2> QED BY <1>2, <1>3, EachOK DEF CallsOK
<1>5. Listed = ts
  BY <1>2 DEF Listed
<1> HIDE DEF calls, ts
<1>6. \A e \in ToSet(calls) : ReadCall(kind, job[g].do, e, seen[g].decls)
  BY <1>2, <1>4 DEF ReadCall, Call
<1>7. \A n \in Listed : \E e \in ToSet(calls) : e.t = n
  <2>1. \A n \in ts : Call("sample", n, Empty) \in ToSet(calls) /\ Call("sample", n, Empty).t = n
    BY <1>4 DEF Call
  <2> QED BY <1>5, <2>1
<1>8. Tells(g, OnTo(g, calls), {}, faults) /\ OnTo(g, calls).ok = TRUE
  BY <1>1, <1>4, <1>6, <1>7, TellsFirst
<1> QED BY <1>1, <1>8, TellsFail, FailGoes, ReadsRead

LEMMA ReadDeclsReads ==
  ASSUME TypeInv, ReadInv, NEW g \in Gates, Reading(g), ReadDecls(g)
  PROVE  ReadInv'
<1> DEFINE names == IF decls = <<>> THEN <<Call("listNames", NoTable, Empty)>> ELSE <<>>
           maps == [i \in DOMAIN decls |-> Call("mapping", decls[i].table, decls[i].key)]
           tabs == {ToTable(decls[i]) : i \in DOMAIN decls}
           told == With(OnTo(g, <<>>), tabs)
           on == IF Starts(g) THEN OnTo(g, names)
                 ELSE IF kind = "hybrid" THEN OnTo(g, maps) ELSE told
<1>1. Does(g, "readDecls") /\ Reads(g, FALSE, on, Fail)
  BY DEF ReadDecls
<1>2. job[g].do = "describe" /\ kind \in {"hybrid", "declared"} /\ ~Starts(g)
  BY <1>1, ReadCur DEF ReadCall, Starts
<1>3. ReadsInv(g) /\ ToSet(decls) \subseteq seen[g].decls
  BY <1>1, ReadCur DEF ReadsInv, Seeing, Moment
<1>4. Len(decls) \in Nat /\ DOMAIN decls = 1..Len(decls) /\ \A i \in 1..Len(decls) : decls[i] \in ToSet(decls)
  BY ListElems DEF TypeInv, StoreOK, Now, DeclsOK
<1>5. \A n \in Listed : \E i \in 1..Len(decls) : decls[i].table = n
  BY <1>2, <1>4 DEF Listed, Declared, At
<1>6. CASE kind = "hybrid"
  <2>1. /\ DOMAIN maps = 1..Len(decls) /\ maps = [i \in 1..Len(decls) |-> maps[i]]
        /\ \A i \in 1..Len(decls) : maps[i] = Call("mapping", decls[i].table, decls[i].key)
    BY <1>4
  <2>2. on = OnTo(g, maps)
    BY <1>2, <1>6
  <2> HIDE DEF maps, on
  <2>3. List(maps)
    BY <1>4, <2>1, FnList
  <2>4. \A e \in ToSet(maps) : ReadCall(kind, job[g].do, e, seen[g].decls)
    <3> SUFFICES ASSUME NEW i \in 1..Len(decls)
                 PROVE  ReadCall(kind, job[g].do, maps[i], seen[g].decls)
      BY <2>1 DEF ToSet
    <3>1. maps[i].c = "mapping" /\ maps[i].t = decls[i].table /\ maps[i].x = decls[i].key /\ decls[i] \in seen[g].decls
      BY <1>3, <1>4, <2>1 DEF Call
    <3> QED BY <1>2, <1>6, <3>1 DEF ReadCall
  <2>5. \A n \in Listed : \E e \in ToSet(maps) : e.t = n
    <3> SUFFICES ASSUME NEW n \in Listed PROVE \E e \in ToSet(maps) : e.t = n
      OBVIOUS
    <3> PICK i \in 1..Len(decls) : decls[i].table = n
      BY <1>5
    <3>1. maps[i] \in ToSet(maps) /\ maps[i].t = n
      BY <2>1 DEF ToSet, Call
    <3> QED BY <3>1
  <2>6. Tells(g, on, {}, faults) /\ on.ok = TRUE
    BY <1>1, <2>2, <2>3, <2>4, <2>5, TellsFirst
  <2> QED BY <1>1, <2>6, TellsFail, FailGoes, ReadsRead
<1>7. CASE kind = "declared"
  <2>1. on = told
    BY <1>2, <1>7
  <2>2. told.ok = TRUE /\ told.todo = <<>> \o Tail(todo[g]) /\ told.got = got[g] \cup tabs
    <3> HIDE DEF tabs
    <3> QED BY WithIs
  <2> HIDE DEF told, on
  <2>3. \A x \in tabs : GotTrue(kind, job[g].do, x, seen[g], faults)
    BY <1>3, <1>4, <1>7 DEF GotTrue
  <2>4. \A n \in Listed : \E x \in tabs : x.name = n
    <3> SUFFICES ASSUME NEW n \in Listed PROVE \E x \in tabs : x.name = n
      OBVIOUS
    <3> PICK i \in 1..Len(decls) : decls[i].table = n
      BY <1>5
    <3>1. ToTable(decls[i]).name = n
      BY DEF ToTable
    <3> QED BY <1>4, <3>1
  <2> HIDE DEF tabs
  <2>5. List(Tail(todo[g])) /\ ToSet(todo[g]) = {Cur(g)} \cup ToSet(Tail(todo[g]))
    BY <1>1, ReadCur
  <2>6. ToSet(told.todo) = ToSet(Tail(todo[g]))
    BY <2>2, <2>5, NoList, ListConcat
  <2>7. Covered(told.todo, told.got, always[g] \ {})
    BY <1>3, <2>2, <2>4 DEF Covered, ReadsInv
  <2>8. Tells(g, told, {}, faults)
    BY <1>3, <2>2, <2>3, <2>5, <2>6, <2>7 DEF Tells, ReadsInv
  <2> QED BY <1>1, <2>1, <2>2, <2>8, TellsFail, FailGoes, ReadsRead
<1> QED BY <1>2, <1>6, <1>7

(* what a gateway that reads does is one of the calls that read *)
LEMMA ReadingStep ==
  ASSUME TypeInv, ReadInv, NEW g \in Gates, Reading(g), Step(g)
  PROVE  ReadInv'
<1> DEFINE asks == {"readDecls", "listNames", "mapping", "sample", "getDecl", "search"}
<1>1. ASSUME NEW c, c \notin asks PROVE ~Does(g, c)
  BY <1>1, ReadCur DEF ReadCall
<1>2. ~(CreateColl(g) \/ PutMapping(g) \/ DropColl(g) \/ DeleteDecl(g) \/ IndexDoc(g) \/ InsertMany(g)
        \/ UpdateWhere(g) \/ DeleteWhere(g))
  BY <1>1 DEF CreateColl, PutMapping, DropColl, DeleteDecl, IndexDoc, InsertMany, UpdateWhere, DeleteWhere
<1>3. ~(CountDecls(g) \/ DeclIndexExists(g) \/ DeclIndexCreate(g) \/ PutDecl(g) \/ InsertDecl(g)
        \/ InsertDecls(g) \/ PushCols(g) \/ ExistsIndex(g) \/ Count(g) \/ Ensure(g))
  BY <1>1 DEF CountDecls, DeclIndexExists, DeclIndexCreate, PutDecl, InsertDecl, InsertDecls, PushCols,
              ExistsIndex, Count, Ensure
<1> QED BY <1>2, <1>3, SearchReads, GetDeclReads, MappingReads, SampleReads, ListNamesReads, ReadDeclsReads
        DEF Step

LEMMA StepReads ==
  ASSUME TypeInv, ReadInv, NEW g \in Gates, Step(g)
  PROVE  ReadInv'
<1>1. CASE Reading(g)
  BY <1>1, ReadingStep
<1>2. CASE ~Reading(g)
  BY <1>2, StepOthers, OthersRead DEF ReadInv, Others
<1> QED BY <1>1, <1>2

(* the store as it was *)
LEMMA SameStore ==
  ASSUME UNCHANGED <<kind, coll, decls>>
  PROVE  Moment' = Moment /\ Listed' = Listed
<1>1. \A t : ColumnsNow(t)' = ColumnsNow(t) /\ There(t)' = There(t) /\ Declared(t)' = Declared(t)
  BY DEF ColumnsNow, MappingColumns, FirstDocs, Docs, There, Declared, At
<1>4. \A t, n : ColumnsOfFirst(t, n)' = ColumnsOfFirst(t, n)
  BY DEF ColumnsOfFirst, FirstDocs, Docs, There
<1> DEFINE part == {<<t, ColumnsOfFirst(t, n)>> : t \in TableNames, n \in 0..SampleSize}
<1>5. part' = part
  <2>1. \A x : x \in part' <=> \E t \in TableNames, n \in 0..SampleSize : x = <<t, ColumnsOfFirst(t, n)'>>
    OBVIOUS
  <2>2. \A x : x \in part <=> \E t \in TableNames, n \in 0..SampleSize : x = <<t, ColumnsOfFirst(t, n)>>
    OBVIOUS
  <2> HIDE DEF part
  <2> QED BY <1>4, <2>1, <2>2
<1>6. Moment.decls' = Moment.decls /\ Moment.cols' = Moment.cols
  BY <1>1 DEF Moment
<1>7. Moment = [decls |-> Moment.decls, cols |-> Moment.cols, part |-> IF kind = "sampled" THEN part ELSE {}]
  BY DEF Moment
<1>8. Moment' = [decls |-> Moment.decls', cols |-> Moment.cols', part |-> IF kind' = "sampled" THEN part' ELSE {}]
  BY DEF Moment
<1> HIDE DEF part
<1>2. Moment' = Moment
  BY <1>5, <1>6, <1>7, <1>8
<1>3. Listed' = Listed
  BY <1>1 DEF Listed, StaticSchema
<1> QED BY <1>2, <1>3

LEMMA StillReads ==
  ASSUME ReadInv, UNCHANGED <<kind, coll, decls>>, NEW x,
         UNCHANGED <<faults, up[x], job[x], todo[x], got[x], seen[x], always[x]>>, x \in Gates, Reading(x)'
  PROVE  ReadsInv(x)'
<1>1. ReadsInv(x)
  BY DEF ReadInv, Reading
<1> QED BY <1>1, SameStore DEF ReadsInv

LEMMA BeginReads ==
  ASSUME TypeInv, ReadInv, NEW g \in Gates, NEW do, NEW t, NEW calls, Begin(g, do, t, calls),
         \/ do = "describe" /\ calls = Describe
         \/ do = "scan" /\ calls = Scan(t)
         \/ do \notin {"describe", "scan"}
  PROVE  ReadInv'
<1>1. /\ UNCHANGED <<kind, coll, decls, up, faults>> /\ up[g] = "serving"
      /\ job'[g] = [do |-> do, t |-> t] /\ todo'[g] = calls
      /\ do \in {"describe", "scan"} => seen'[g] = Moment /\ always'[g] = Listed
      /\ got'[g] = IF do = "describe" /\ kind = "static" THEN StaticSchema ELSE {}
  BY DEF Begin, store, TypeInv
<1>2. \A x \in Gates \ {g} : UNCHANGED <<up[x], job[x], todo[x], got[x], seen[x], always[x]>>
  BY DEF Begin, TypeInv
<1>3. Moment' = Moment /\ Listed' = Listed
  BY <1>1, SameStore
<1>4. ASSUME Reading(g)' PROVE ReadsInv(g)'
  <2>1. do \in {"describe", "scan"} /\ job'[g].do = do
    BY <1>1, <1>4 DEF Reading
  <2>2. Seeing(seen'[g], Moment')
    BY <1>1, <1>3, <2>1 DEF Seeing
  <2>3. \A c \in ToSet(calls) : ReadCall(kind, do, c, seen'[g].decls)
    <3>1. CASE do = "describe"
      <4>1. ToSet(Describe) \subseteq {Call(c, NoTable, Empty) : c \in IF Keyed THEN {"readDecls"} ELSE {"listNames"}}
            /\ (kind = "static" => ToSet(Describe) = {})
        BY NoList, OneList DEF Describe, Keyed
      <4>2. kind \in Kinds
        BY DEF TypeInv
      <4> QED BY <3>1, <4>1, <4>2 DEF ReadCall, Call, Keyed, Kinds
    <3>2. CASE do = "scan"
      <4>1. ASSUME NEW c, NEW d, NEW e PROVE ToSet(<<c, d, e>>) \subseteq {c, d, e}
        <5> DEFINE s == <<c, d, e>>
        <5>1. DOMAIN s = 1..3 /\ s[1] = c /\ s[2] = d /\ s[3] = e
          OBVIOUS
        <5> HIDE DEF s
        <5>2. \A i \in 1..3 : s[i] \in {c, d, e}
          BY <5>1
        <5>3. ToSet(s) \subseteq {c, d, e}
          BY <5>1, <5>2 DEF ToSet
        <5> QED BY <5>3 DEF s
      <4>2. ToSet(Scan(t)) \subseteq {Call(c, t, Empty) : c \in
              CASE kind = "hybrid" -> {"getDecl", "mapping", "search"} [] kind = "declared" -> {"getDecl", "search"}
                [] kind = "sampled" -> {"sample", "search"} [] OTHER -> {"search"}}
        BY <4>1, OneList, TwoList DEF Scan
      <4>3. \A c \in ToSet(Scan(t)) : ReadCall(kind, "scan", c, seen'[g].decls)
        BY <4>2 DEF ReadCall, Call
      <4> QED BY <2>1, <3>2, <4>3
    <3> QED BY <2>1, <3>1, <3>2
  <2>4. \A x \in got'[g] : GotTrue(kind, do, x, seen'[g], faults)
    BY <1>1 DEF GotTrue
  <2>5. do = "describe" => First(calls) \/ Covered(calls, got'[g], always'[g])
    <3> SUFFICES ASSUME do = "describe" PROVE First(calls) \/ Covered(calls, got'[g], always'[g])
      OBVIOUS
    <3>1. CASE kind = "static"
      <4>1. always'[g] = {x.name : x \in StaticSchema} /\ got'[g] = StaticSchema
        BY <1>1, <2>1, <3>1 DEF Listed
      <4> QED BY <4>1 DEF Covered
    <3>2. CASE kind # "static"
      <4>1. calls \in {<<Call("readDecls", NoTable, Empty)>>, <<Call("listNames", NoTable, Empty)>>}
        BY <3>2 DEF Describe
      <4> QED BY <4>1 DEF First, Call
    <3> QED BY <3>1, <3>2
  <2> QED BY <1>1, <1>3, <2>1, <2>2, <2>3, <2>4, <2>5 DEF ReadsInv
<1>5. ASSUME NEW x \in Gates, x # g, Reading(x)' PROVE ReadsInv(x)'
  BY <1>1, <1>2, <1>5, StillReads
<1> QED BY <1>1, <1>4, <1>5 DEF ReadInv

LEMMA BeginsRead ==
  ASSUME TypeInv, ReadInv, NEW g \in Gates, BeginRead(g) \/ BeginWrite(g) \/ BeginDDL(g)
  PROVE  ReadInv'
<1>1. CASE BeginRead(g)
  BY <1>1, BeginReads DEF BeginRead
<1>2. CASE BeginWrite(g)
  BY <1>2, BeginReads DEF BeginWrite
<1>3. CASE BeginDDL(g)
  BY <1>3, BeginReads DEF BeginDDL
<1> QED BY <1>1, <1>2, <1>3

LEMMA RestReads ==
  ASSUME TypeInv, ReadInv, NEW g \in Gates, Answer(g) \/ Ready(g) \/ Crash(g) \/ Start(g)
  PROVE  ReadInv'
<1>1. /\ UNCHANGED <<kind, coll, decls, faults>>
      /\ \A x \in Gates \ {g} : UNCHANGED <<up[x], job[x], todo[x], got[x], seen[x], always[x]>>
      /\ ~Reading(g)'
  <2>1. ASSUME Rest(g)
        PROVE  /\ UNCHANGED <<kind, coll, decls>> /\ ~Reading(g)'
               /\ \A x \in Gates \ {g} : UNCHANGED <<job[x], got[x], seen[x], always[x]>>
    BY <2>1 DEF Rest, store, Reading, Nothing, TypeInv
  <2>2. CASE Answer(g)
    BY <2>1, <2>2 DEF Answer, bounds, TypeInv
  <2>3. CASE Ready(g)
    BY <2>1, <2>3 DEF Ready, bounds, TypeInv
  <2>4. CASE Crash(g)
    BY <2>1, <2>4 DEF Crash, TypeInv
  <2>5. CASE Start(g)
    BY <2>5 DEF Start, store, bounds, Reading, TypeInv
  <2> QED BY <2>2, <2>3, <2>4, <2>5
<1>2. ASSUME NEW x \in Gates, Reading(x)' PROVE ReadsInv(x)'
  BY <1>1, <1>2, StillReads
<1> QED BY <1>1, <1>2 DEF ReadInv

LEMMA ReadNext ==
  ASSUME TypeInv, ReadInv, [Next]_vars
  PROVE  ReadInv'
<1>1. ASSUME UNCHANGED vars PROVE ReadInv'
  <2>1. UNCHANGED <<kind, coll, decls, up, job, todo, got, seen, always, faults>>
    BY <1>1 DEF vars, store, history, bounds
  <2> QED BY <2>1, StillReads DEF ReadInv
<1> QED BY <1>1, StepReads, BeginsRead, RestReads DEF Next, Stop

LEMMA ReadInvariant == Spec => []ReadInv
<1>1. Init => ReadInv
  BY DEF Init, ReadInv, Reading, Nothing
<1>2. TypeInv /\ ReadInv /\ [Next]_vars => ReadInv'
  BY ReadNext
<1> QED BY <1>1, <1>2, TypesInvariant, PTL DEF Spec

(* A schema put together from several calls (Describe, Scan) while other gateways create, alter  *)
(* and drop tables, of a gateway of any kind: each table in it had these columns, and was        *)
(* declared with this key, at some moment since the call began; and no table is missing that was *)
(* there all the time and whose columns the store did not refuse.  Of "sampled", once a call has *)
(* failed, they may be the columns of the first few of its documents.                            *)
THEOREM DescribeCorrect == Spec => []DescribeTrue
<1>1. ReadInv => DescribeTrue
  <2> SUFFICES ASSUME ReadInv, NEW g \in Gates, Reading(g), todo[g] = <<>>
               PROVE  /\ \A x \in got[g] : GotTrue(kind, job[g].do, x, seen[g], faults)
                      /\ job[g].do = "describe" => always[g] \subseteq {x.name : x \in got[g]}
    BY DEF DescribeTrue, GotTrue
  <2>1. ReadsInv(g)
    BY DEF ReadInv
  <2>2. ~First(todo[g]) /\ ToSet(todo[g]) = {}
    BY NoList DEF First
  <2> QED BY <2>1, <2>2 DEF ReadsInv, Covered
<1> QED BY <1>1, ReadInvariant, PTL

-----------------------------------------------------------------------------
(* Gateways that start together.  While nothing fails, nobody dies and     *)
(* nothing is dropped or deleted (Quiet), the store only grows, and each   *)
(* table of the demonstration that is not whole yet is owed by a gateway   *)
(* that is starting: it still has the calls to make, and none of those     *)
(* before them can be refused.  An index that was made first and filled    *)
(* later ("hybrid") is what the others take for whole: it is whole only    *)
(* once its maker is done.                                                 *)

Quiet == demo /\ faults = 0 /\ crashes = 0

DemoNames == {Demo[i].name : i \in DOMAIN Demo}
AllDeclared == \A t \in DemoNames : Declared(t)

Has(q, cs, t) == \E c \in ToSet(q) : c.c \in cs /\ c.t = t
Fits(m, d) == \A f \in DOMAIN d.at : f \in DOMAIN m /\ Accepts(m[f], d.at[f])

SeedCalls(k) ==
  CASE k = "hybrid"   -> {"exists", "create", "declIndexExists", "declIndexCreate", "putDecl", "index"}
    [] k = "hits"     -> {"count", "ensure", "create", "index"}
    [] k = "declared" -> {"count", "insertMany", "countDecls", "insertDecls"}
    [] OTHER          -> {"count", "insertMany"}

(* a call of a gateway that seeds *)
SeedCall(k, c) ==
  /\ c.c \in SeedCalls(k)
  /\ c.c = "insertMany"  => c.x # <<>>
  /\ c.c = "putDecl"     => c.x.table = c.t
  /\ c.c = "insertDecls" => \A t \in DemoNames : \E d \in ToSet(c.x) : d.table = t

(* a call of any gateway while nothing is dropped or deleted *)
KindCall(c) == c.c \notin {"drop", "deleteDecl", "deleteWhere"} /\ (c.c = "insertMany" => List(c.x))

(* "hybrid": an index is made before all else, and what is not looked at   *)
(* yet comes last.                                                         *)
Ordered(q) ==
  \A n \in 1..Len(q), m \in 1..Len(q) : m < n =>
    q[n].c # "create" /\ (q[m].c = "exists" => q[n].c = "exists")

(* The index it is about to make it will declare and fill, *)
Making(q) ==
  q[1].c = "create" =>
    /\ Has(q, {"putDecl"}, q[1].t) /\ Has(q, {"index"}, q[1].t)
    /\ \A c \in ToSet(q) : c.c = "index" => c.t = q[1].t /\ Fits(q[1].x, c.x)
(* and what it fills is there, and takes what it is given. *)
Filling(q) ==
  q[1].c # "create" => \A c \in ToSet(q) : c.c = "index" => There(c.t) /\ Fits(coll[c.t].fields, c.x)

Seeding(g) ==
  /\ job[g].do = "seed"
  /\ \A c \in ToSet(todo[g]) : SeedCall(kind, c)
  /\ kind = "hybrid" => Ordered(todo[g]) /\ (todo[g] # <<>> => Making(todo[g]) /\ Filling(todo[g]))

(* A gateway that serves has found the demonstration, or made it; one that *)
(* starts has, or is to.                                                   *)
Provided(g) ==
  /\ kind = "hybrid" =>
       \A t \in DemoNames : There(t) \/ (Starts(g) /\ Has(todo[g], {"exists", "create"}, t))
  /\ kind # "hybrid" =>
       \A t \in DemoNames : Docs(t) # <<>> \/ (Starts(g) /\ Has(todo[g], {"count", "index", "insertMany"}, t))
  /\ kind = "declared" =>
       AllDeclared \/ (Starts(g) /\ \E c \in ToSet(todo[g]) : c.c \in {"countDecls", "insertDecls"})

SeedGate(g) ==
  /\ \A c \in ToSet(todo[g]) : KindCall(c)
  /\ Starts(g) => Seeding(g)
  /\ up[g] # "down" => Provided(g)

(* g is past making the index it fills and declares *)
Owes(g, c, t) == Starts(g) /\ Has(todo[g], {c}, t) /\ Cur(g).c # "create"

SeedStore ==
  /\ \A t \in DOMAIN coll : List(coll[t].docs)
  /\ kind = "declared" => decls = <<>> \/ AllDeclared
  /\ kind = "hybrid" => \A t \in DemoNames \ DOMAIN Foreign : There(t) =>
       /\ Docs(t) # <<>> \/ \E g \in Gates : Owes(g, "index", t)
       /\ Declared(t) \/ \E g \in Gates : Owes(g, "putDecl", t)

SeedInv ==
  /\ kind \in KindsServed /\ faults \in Nat /\ crashes \in Nat
  /\ Quiet => SeedStore /\ \A g \in Gates : SeedGate(g)

LEMMA HasTail ==
  ASSUME NEW q, List(q), q # <<>>
  PROVE  /\ \A cs, t : Has(q, cs, t) => Has(Tail(q), cs, t) \/ (q[1].c \in cs /\ q[1].t = t)
         /\ \A cs, t : Has(Tail(q), cs, t) => Has(q, cs, t)
BY ListTail DEF Has

LEMMA HasMore ==
  ASSUME NEW p, NEW q, List(p), List(q)
  PROVE  \A cs, t : Has(p \o q, cs, t) <=> Has(p, cs, t) \/ Has(q, cs, t)
BY ListConcat DEF Has

LEMMA OrderedTail ==
  ASSUME NEW q, List(q), q # <<>>, Ordered(q)
  PROVE  /\ Ordered(Tail(q))
         /\ \A c \in ToSet(Tail(q)) : c.c # "create" /\ (q[1].c = "exists" => c.c = "exists")
<1> DEFINE u == Tail(q)
<1>1. /\ List(u) /\ Len(q) \in Nat /\ Len(q) > 0 /\ Len(u) = Len(q) - 1
      /\ \A i \in 1..(Len(q) - 1) : u[i] = q[i + 1]
  BY ListTail, ListElems
<1>2. \A x \in ToSet(u) : \E i \in 1..Len(u) : u[i] = x
  BY <1>1, ListElems
<1> HIDE DEF u
<1>3. \A i \in 1..Len(u) : u[i] = q[i + 1] /\ i + 1 \in 1..Len(q) /\ 1 \in 1..Len(q) /\ 1 < i + 1
  BY <1>1
<1>4. Ordered(u)
  <2> SUFFICES ASSUME NEW n \in 1..Len(u), NEW m \in 1..Len(u), m < n
               PROVE  u[n].c # "create" /\ (u[m].c = "exists" => u[n].c = "exists")
    BY DEF Ordered
  <2>1. m + 1 < n + 1
    BY <1>1
  <2> QED BY <1>3, <2>1 DEF Ordered
<1>5. \A i \in 1..Len(u) : u[i].c # "create" /\ (q[1].c = "exists" => u[i].c = "exists")
  BY <1>3 DEF Ordered
<1> QED BY <1>2, <1>4, <1>5 DEF u

LEMMA OrderedMore ==
  ASSUME NEW p, NEW q, List(p), List(q), Ordered(p), Ordered(q),
         \A c \in ToSet(p) : c.c # "exists", \A c \in ToSet(q) : c.c # "create"
  PROVE  Ordered(p \o q)
<1> DEFINE w == p \o q
<1>1. /\ Len(p) \in Nat /\ Len(q) \in Nat /\ Len(w) = Len(p) + Len(q)
      /\ \A i \in 1..Len(p) : w[i] = p[i] /\ p[i] \in ToSet(p)
      /\ \A i \in 1..Len(q) : w[Len(p) + i] = q[i] /\ q[i] \in ToSet(q)
  BY ListConcat, ListElems
<1> HIDE DEF w
<1>2. \A i \in 1..Len(w) : i > Len(p) => i - Len(p) \in 1..Len(q) /\ w[i] = q[i - Len(p)]
  <2> SUFFICES ASSUME NEW i \in 1..Len(w), i > Len(p)
               PROVE  i - Len(p) \in 1..Len(q) /\ w[i] = q[i - Len(p)]
    OBVIOUS
  <2>1. i - Len(p) \in 1..Len(q) /\ Len(p) + (i - Len(p)) = i
    BY <1>1
  <2> QED BY <1>1, <2>1
<1> SUFFICES ASSUME NEW n \in 1..Len(w), NEW m \in 1..Len(w), m < n
             PROVE  w[n].c # "create" /\ (w[m].c = "exists" => w[n].c = "exists")
  BY DEF Ordered, w
<1>3. CASE n <= Len(p)
  <2>1. n \in 1..Len(p) /\ m \in 1..Len(p)
    BY <1>1, <1>3
  <2> QED BY <1>1, <2>1 DEF Ordered
<1>4. CASE n > Len(p) /\ m <= Len(p)
  <2>1. m \in 1..Len(p)
    BY <1>1, <1>4
  <2>2. w[n].c # "create"
    BY <1>1, <1>2, <1>4
  <2> QED BY <1>1, <2>1, <2>2
<1>5. CASE n > Len(p) /\ m > Len(p)
  <2>1. n - Len(p) \in 1..Len(q) /\ m - Len(p) \in 1..Len(q) /\ m - Len(p) < n - Len(p)
    BY <1>1, <1>2, <1>5
  <2>2. w[n] = q[n - Len(p)] /\ w[m] = q[m - Len(p)]
    BY <1>2, <1>5
  <2> QED BY <2>1, <2>2 DEF Ordered
<1> QED BY <1>1, <1>3, <1>4, <1>5

LEMMA DeclaredIs ==
  ASSUME NEW t, List(decls)
  PROVE  Declared(t) <=> \E d \in ToSet(decls) : d.table = t
BY ListElems DEF Declared, At

-----------------------------------------------------------------------------
(* The store only grows: tables stay, their fields keep their types, and   *)
(* rows and declarations do not all go.                                    *)

Grown(s) ==
  /\ \A t \in DOMAIN coll :
       /\ t \in DOMAIN s.coll
       /\ \A f \in DOMAIN coll[t].fields : f \in DOMAIN s.coll[t].fields /\ s.coll[t].fields[f] = coll[t].fields[f]
       /\ coll[t].docs # <<>> => s.coll[t].docs # <<>>
  /\ \A t \in DOMAIN s.coll : List(s.coll[t].docs)
  /\ \A d \in ToSet(decls) : \E e \in ToSet(s.decls) : e.table = d.table

LEMMA GrownNow == SeedStore => Grown(Now)
BY DEF SeedStore, Grown, Now

LEMMA GrownColl ==
  ASSUME SeedStore, NEW t, NEW c, List(c.docs),
         There(t) => /\ \A f \in DOMAIN coll[t].fields : f \in DOMAIN c.fields /\ c.fields[f] = coll[t].fields[f]
                     /\ coll[t].docs # <<>> => c.docs # <<>>
  PROVE  Grown(SetColl(t, c))
BY DEF SeedStore, Grown, SetColl, Now, There

LEMMA GrownDecls ==
  ASSUME SeedStore, NEW ds, \A d \in ToSet(decls) : \E e \in ToSet(ds) : e.table = d.table
  PROVE  Grown(SetDecls(ds))
BY DEF SeedStore, Grown, SetDecls, Now

(* what there was there is, what was filled is filled, what was declared is *)
LEMMA GrownKeeps ==
  ASSUME TypeInv, NEW s, Grown(s), TypeInv', coll' = s.coll, decls' = s.decls
  PROVE  /\ \A t : There(t) => There(t)'
         /\ \A t : Docs(t) # <<>> => Docs(t)' # <<>>
         /\ \A t : Declared(t) => Declared(t)'
         /\ AllDeclared => AllDeclared'
         /\ \A t, d : There(t) /\ Fits(coll[t].fields, d) => Fits(coll'[t].fields, d)
<1>1. \A t : There(t) => There(t)'
  BY DEF Grown, There
<1>2. \A t : Docs(t) # <<>> => Docs(t)' # <<>>
  BY DEF Grown, There, Docs
<1>3. \A t : Declared(t) => Declared(t)'
  <2>1. List(decls) /\ List(decls')
    BY DEF TypeInv, StoreOK, Now, DeclsOK
  <2>2. \A t : Declared(t) <=> \E d \in ToSet(decls) : d.table = t
    BY <2>1, DeclaredIs
  <2>3. \A t : Declared(t)' <=> \E d \in ToSet(decls') : d.table = t
    BY <2>1, ListElems DEF Declared, At
  <2> QED BY <2>2, <2>3 DEF Grown
<1>4. AllDeclared => AllDeclared'
  BY <1>3 DEF AllDeclared
<1>5. \A t, d : There(t) /\ Fits(coll[t].fields, d) => Fits(coll'[t].fields, d)
  BY DEF Grown, There, Fits
<1> QED BY <1>1, <1>2, <1>3, <1>4, <1>5

(* A gateway that does nothing stays as it is in a store that grows. *)
LEMMA OtherSeeds ==
  ASSUME TypeInv, SeedInv, Quiet, NEW s, Grown(s), TypeInv', coll' = s.coll, decls' = s.decls, kind' = kind,
         NEW x \in Gates, up'[x] = up[x], job'[x] = job[x], todo'[x] = todo[x]
  PROVE  SeedGate(x)'
<1>1. SeedGate(x) /\ (Starts(x)' <=> Starts(x))
  BY DEF SeedInv, Starts
<1>2. ASSUME Starts(x) PROVE Seeding(x)'
  <2>1. Seeding(x)
    BY <1>1, <1>2 DEF SeedGate
  <2>2. todo[x] # <<>> /\ Filling(todo[x]) => Filling(todo[x])'
    BY GrownKeeps DEF Filling
  <2>3. Making(todo'[x]) <=> Making(todo[x])
    OBVIOUS
  <2>4. \A c : SeedCall(kind, c)' <=> SeedCall(kind, c)
    BY DEF SeedCall
  <2> QED BY <2>1, <2>2, <2>3, <2>4 DEF Seeding, Filling
<1>3. ASSUME up[x] # "down" PROVE Provided(x)'
  <2>1. Provided(x)
    BY <1>1, <1>3 DEF SeedGate
  <2>2. AllDeclared => AllDeclared'
    BY GrownKeeps
  <2> QED BY <1>1, <2>1, <2>2, GrownKeeps DEF Provided
<1> QED BY <1>1, <1>2, <1>3 DEF SeedGate

(* What g has brought to the store it is to make whole, and what it has    *)
(* still to bring it has brought or keeps owing.                           *)
Honest(g) ==
  /\ kind = "hybrid" => \A t \in DemoNames \ DOMAIN Foreign :
       /\ There(t)' => There(t) \/ (Owes(g, "index", t) /\ Owes(g, "putDecl", t))'
       /\ Owes(g, "index", t) => Docs(t)' # <<>> \/ Owes(g, "index", t)'
       /\ Owes(g, "putDecl", t) => Declared(t)' \/ Owes(g, "putDecl", t)'
  /\ kind = "declared" => decls' = decls \/ AllDeclared'

LEMMA StoreSeeds ==
  ASSUME TypeInv, SeedInv, Quiet, NEW s, Grown(s), TypeInv', coll' = s.coll, decls' = s.decls, kind' = kind,
         NEW g \in Gates, \A x \in Gates \ {g} : up'[x] = up[x] /\ todo'[x] = todo[x], Honest(g)
  PROVE  SeedStore'
<1>1. SeedStore
  BY DEF SeedInv
<1>2. \A t \in DOMAIN coll' : List(coll'[t].docs)
  BY DEF Grown
<1>3. kind = "declared" => decls' = <<>> \/ AllDeclared'
  BY <1>1, GrownKeeps DEF SeedStore, Honest
<1>4. ASSUME NEW x \in Gates \ {g}, NEW c, NEW t PROVE Owes(x, c, t)' <=> Owes(x, c, t)
  BY DEF Owes, Starts, Cur
<1>5. ASSUME kind = "hybrid", NEW t \in DemoNames \ DOMAIN Foreign, There(t)'
      PROVE  /\ Docs(t)' # <<>> \/ \E x \in Gates : Owes(x, "index", t)'
             /\ Declared(t)' \/ \E x \in Gates : Owes(x, "putDecl", t)'
  <2>1. CASE ~There(t)
    BY <1>5, <2>1 DEF Honest
  <2>2. CASE There(t)
    <3>1. /\ Docs(t) # <<>> \/ \E x \in Gates : Owes(x, "index", t)
          /\ Declared(t) \/ \E x \in Gates : Owes(x, "putDecl", t)
      BY <1>1, <1>5, <2>2 DEF SeedStore
    <3>2. \A x \in Gates : Owes(x, "index", t) => Docs(t)' # <<>> \/ Owes(x, "index", t)'
      BY <1>4, <1>5 DEF Honest
    <3>3. \A x \in Gates : Owes(x, "putDecl", t) => Declared(t)' \/ Owes(x, "putDecl", t)'
      BY <1>4, <1>5 DEF Honest
    <3> QED BY <3>1, <3>2, <3>3, GrownKeeps
  <2> QED BY <2>1, <2>2
<1> QED BY <1>2, <1>3, <1>5 DEF SeedStore

(* A step of g, by what it makes of g and of the store *)
LEMMA OutcomeSeeds ==
  ASSUME TypeInv, SeedInv, Quiet, NEW g \in Gates, todo[g] # <<>>, NEW s, NEW r, Outcome(g, s, r),
         Grown(s), TypeInv', SeedGate(g)', Honest(g)
  PROVE  SeedStore' /\ \A x \in Gates : SeedGate(x)'
<1>1. coll' = s.coll /\ decls' = s.decls /\ kind' = kind
      /\ \A x \in Gates \ {g} : up'[x] = up[x] /\ job'[x] = job[x] /\ todo'[x] = todo[x]
  BY DEF Outcome, TypeInv
<1>2. SeedStore'
  BY <1>1, StoreSeeds
<1>3. \A x \in Gates \ {g} : SeedGate(x)'
  BY <1>1, OtherSeeds
<1> QED BY <1>2, <1>3

(* A gateway that serves owes nothing, and brings nothing that was not there. *)
LEMMA ServingSeeds ==
  ASSUME TypeInv, SeedInv, Quiet, NEW g \in Gates, up[g] = "serving", todo[g] # <<>>, NEW s, NEW r, Outcome(g, s, r),
         Grown(s), TypeInv', \A c \in ToSet(r.todo) : KindCall(c)
  PROVE  SeedStore' /\ \A x \in Gates : SeedGate(x)'
<1>1. coll' = s.coll /\ decls' = s.decls /\ kind' = kind /\ up'[g] = "serving" /\ todo'[g] = r.todo
  BY DEF Outcome, TypeInv, Starts
<1>2. ~Starts(g) /\ ~Starts(g)' /\ Provided(g)
  BY <1>1 DEF Starts, SeedInv, SeedGate
<1>3. AllDeclared => AllDeclared'
  BY <1>1, GrownKeeps
<1>4. Provided(g)'
  BY <1>1, <1>2, <1>3, GrownKeeps DEF Provided
<1>5. SeedGate(g)'
  BY <1>1, <1>2, <1>4 DEF SeedGate, KindCall
<1>6. Honest(g)
  BY <1>1, <1>2, <1>3 DEF Honest, Provided, Owes
<1> QED BY <1>5, <1>6, OutcomeSeeds

(* What the calls make of one table *)
LEMMA ExtendedKeeps ==
  \A m, n : \A f \in DOMAIN m : f \in DOMAIN Extended(m, n) /\ Extended(m, n)[f] = m[f]
BY DEF Extended

LEMMA RewrittenList ==
  ASSUME NEW ds, List(ds), NEW S, S \subseteq DOMAIN ds, NEW set,
         DOMAIN set = DOMAIN ds, set = [i \in DOMAIN ds |-> set[i]]
  PROVE  List(set) /\ Len(set) = Len(ds) /\ (S # {} => set # <<>>)
<1>1. Len(ds) \in Nat /\ DOMAIN ds = 1..Len(ds)
  BY ListElems
<1>2. DOMAIN set = 1..Len(ds) /\ set = [i \in 1..Len(ds) |-> set[i]]
  BY <1>1
<1>3. List(set) /\ Len(set) = Len(ds)
  BY <1>1, <1>2, FnList
<1>4. S # {} => Len(ds) > 0
  BY <1>1
<1>5. set = <<>> <=> Len(set) = 0
  BY <1>3, ListElems
<1> QED BY <1>1, <1>3, <1>4, <1>5

LEMMA StoredGrows ==
  ASSUME NEW c, NEW d, List(c.docs)
  PROVE  /\ List(Stored(c, d).docs) /\ Stored(c, d).docs # <<>>
         /\ \A f \in DOMAIN c.fields : f \in DOMAIN Stored(c, d).fields /\ Stored(c, d).fields[f] = c.fields[f]
<1> DEFINE same == {i \in DOMAIN c.docs : d.id # "" /\ c.docs[i].id = d.id}
           set  == [i \in DOMAIN c.docs |-> IF i \in same THEN d ELSE c.docs[i]]
           app  == Append(c.docs, d)
           new  == IF same = {} THEN app ELSE set
<1>1. Stored(c, d).docs = new /\ Stored(c, d).fields = Learn(c.fields, d.at)
  BY Zenon DEF Stored
<1>2. same \subseteq DOMAIN c.docs
  BY Zenon
<1>3. List(app) /\ app # <<>>
  <2>1. List(app) /\ Len(app) = Len(c.docs) + 1 /\ Len(c.docs) \in Nat
    BY ListAppend, ListElems
  <2> HIDE DEF app
  <2> QED BY <2>1, ListElems
<1> HIDE DEF same
<1>4. List(set) /\ (same # {} => set # <<>>)
  <2>1. DOMAIN set = DOMAIN c.docs /\ set = [i \in DOMAIN c.docs |-> set[i]]
    OBVIOUS
  <2> HIDE DEF set
  <2> QED BY <1>2, <2>1, RewrittenList
<1> HIDE DEF set, app
<1>5. List(new) /\ new # <<>>
  BY <1>3, <1>4
<1> HIDE DEF new
<1> QED BY <1>1, <1>5, ExtendedKeeps DEF Learn

LEMMA SubSeqList ==
  ASSUME NEW s, List(s), NEW n \in Nat, n <= Len(s)
  PROVE  List(SubSeq(s, 1, n)) /\ Len(SubSeq(s, 1, n)) = n
<1> DEFINE S == ToSet(s)
           u == SubSeq(s, 1, n)
<1>1. s \in Seq(S)
  BY DEF List
<1>2. u \in Seq(S) /\ Len(u) = n
  <2> HIDE DEF S
  <2> QED BY <1>1
<1> HIDE DEF S, u
<1> QED BY <1>2, ListIn DEF u

LEMMA InOrderGrows ==
  ASSUME NEW c, CollOK(c), List(c.docs), NEW xs, List(xs)
  PROVE  LET a == InOrder(c, xs) IN
         a.fields = c.fields /\ List(a.docs) /\ Len(a.docs) \in Nat /\ Len(a.docs) >= Len(c.docs)
<1> DEFINE all == c.docs \o xs
           bad == {n \in (Len(c.docs) + 1)..Len(all) : Taken(all, n)}
           upTo == IF bad = {} THEN Len(all) ELSE Min(bad) - 1
           a == InOrder(c, xs)
<1>1. Len(c.docs) \in Nat /\ Len(xs) \in Nat /\ List(all) /\ Len(all) = Len(c.docs) + Len(xs)
  BY ListElems, ListConcat
<1>2. a = [c EXCEPT !.docs = SubSeq(all, 1, upTo)]
  BY DEF InOrder
<1> HIDE DEF all, a
<1>3. upTo \in Nat /\ Len(c.docs) <= upTo /\ upTo <= Len(all)
  <2>1. CASE bad = {}
    BY <1>1, <2>1
  <2>2. CASE bad # {}
    <3>1. bad \in SUBSET Nat
      BY <1>1
    <3>2. Min(bad) \in bad
      BY <2>2, <3>1, FirstOfNumbers
    <3>3. Min(bad) \in (Len(c.docs) + 1)..Len(all)
      BY <3>2
    <3> HIDE DEF bad
    <3> QED BY <1>1, <2>2, <3>3
  <2> QED BY <2>1, <2>2
<1> HIDE DEF upTo
<1>4. List(SubSeq(all, 1, upTo)) /\ Len(SubSeq(all, 1, upTo)) = upTo
  BY <1>1, <1>3, SubSeqList
<1>5. a = [fields |-> c.fields, docs |-> SubSeq(all, 1, upTo)]
  BY <1>2, RecordFields DEF CollOK
<1> QED BY <1>1, <1>3, <1>4, <1>5 DEF a

LEMMA ReplacedTables ==
  ASSUME NEW ds, List(ds), NEW i \in 1..Len(ds), NEW d, d.table = ds[i].table
  PROVE  /\ \A x \in ToSet(ds) : \E e \in ToSet(ReplaceAt(ds, i, d)) : e.table = x.table
         /\ d \in ToSet(ReplaceAt(ds, i, d))
<1> DEFINE new == ReplaceAt(ds, i, d)
<1>1. Len(ds) \in Nat /\ DOMAIN ds = 1..Len(ds) /\ \A x \in ToSet(ds) : \E j \in 1..Len(ds) : ds[j] = x
  BY ListElems
<1>2. DOMAIN new = 1..Len(ds) /\ \A j \in 1..Len(ds) : new[j] = IF j = i THEN d ELSE ds[j]
  BY <1>1 DEF ReplaceAt
<1> HIDE DEF new
<1>3. \A j \in 1..Len(ds) : new[j] \in ToSet(new) /\ new[j].table = ds[j].table
  BY <1>2 DEF ToSet
<1> QED BY <1>1, <1>2, <1>3 DEF new

-----------------------------------------------------------------------------
(* Steps: of a gateway that serves *)

Seeded    == SeedStore /\ \A g \in Gates : SeedGate(g)
Kindly(r) == \A c \in ToSet(r.todo) : KindCall(c)

LEMMA QuietOutcomes ==
  ASSUME SeedInv, Quiet, Quiet', NEW g \in Gates,
         NEW bad \in BOOLEAN, NEW new, NEW on, NEW off, Perform(g, bad, new, on, off)
  PROVE  (~bad /\ Outcome(g, new, on)) \/ (bad /\ Outcome(g, new, off))
<1>1. faults = 0 /\ faults' = 0
  BY DEF Quiet
<1>2. \/ ~bad /\ Outcome(g, new, on) /\ History(g, {})
      \/ bad /\ Outcome(g, new, off) /\ History(g, {Cur(g).t})
      \/ faults' = faults + 1
  <2>1. bad \in BOOLEAN
    OBVIOUS
  <2> QED BY <2>1, PerformOutcomes
<1> QED BY <1>1, <1>2

LEMMA ServingPerforms ==
  ASSUME TypeInv, TypeInv', SeedInv, Quiet, Quiet', NEW g \in Gates, up[g] = "serving", todo[g] # <<>>,
         NEW bad \in BOOLEAN, NEW new, NEW on, NEW off, Perform(g, bad, new, on, off),
         Grown(new), Kindly(on), Kindly(off)
  PROVE  Seeded'
<1>1. PICK r \in {on, off} : Outcome(g, new, r)
  <2>1. Outcome(g, new, on) \/ Outcome(g, new, off)
    BY QuietOutcomes
  <2> QED BY <2>1
<1>2. \A c \in ToSet(r.todo) : KindCall(c)
  BY DEF Kindly
<1> QED BY <1>1, <1>2, ServingSeeds DEF Seeded

LEMMA KindOnTo ==
  ASSUME TypeInv, Seeded, NEW g \in Gates, todo[g] # <<>>, NEW calls, List(calls), \A c \in ToSet(calls) : KindCall(c)
  PROVE  Kindly(OnTo(g, calls)) /\ \A xs : Kindly(With(OnTo(g, calls), xs))
<1>1. List(todo[g])
  BY DEF TypeInv, GateOK, CallsOK
<1>2. List(Tail(todo[g])) /\ ToSet(Tail(todo[g])) \subseteq ToSet(todo[g])
  BY <1>1, ListTail
<1>3. ToSet(calls \o Tail(todo[g])) = ToSet(calls) \cup ToSet(Tail(todo[g]))
  BY <1>2, ListConcat
<1>4. \A c \in ToSet(todo[g]) : KindCall(c)
  BY DEF Seeded, SeedGate
<1>5. OnTo(g, calls).todo = calls \o Tail(todo[g]) /\ \A xs : With(OnTo(g, calls), xs).todo = calls \o Tail(todo[g])
  BY DEF OnTo, With
<1> QED BY <1>2, <1>3, <1>4, <1>5 DEF Kindly

LEMMA KindNext ==
  ASSUME TypeInv, Seeded, NEW g \in Gates, todo[g] # <<>>
  PROVE  Kindly(OnTo(g, <<>>)) /\ (\A xs : Kindly(With(OnTo(g, <<>>), xs))) /\ Kindly(Fail)
<1>1. List(<<>>) /\ \A c \in ToSet(<<>>) : KindCall(c)
  BY NoList
<1>2. Kindly(Fail)
  BY NoList DEF Kindly, Fail
<1> QED BY <1>1, <1>2, KindOnTo

(* one call, and what it does not carry *)
LEMMA KindOne ==
  ASSUME TypeInv, Seeded, NEW g \in Gates, todo[g] # <<>>,
         NEW c, c \notin {"drop", "deleteDecl", "deleteWhere", "insertMany"}, NEW t, NEW x
  PROVE  Kindly(OnTo(g, <<Call(c, t, x)>>))
<1>1. KindCall(Call(c, t, x))
  BY DEF KindCall, Call
<1>2. List(<<Call(c, t, x)>>) /\ ToSet(<<Call(c, t, x)>>) = {Call(c, t, x)}
  BY OneList
<1> QED BY <1>1, <1>2, KindOnTo

(* writers *)
LEMMA CurKind ==
  ASSUME TypeInv, Seeded, NEW g \in Gates, NEW c, Does(g, c)
  PROVE  todo[g] # <<>> /\ Cur(g).c = c /\ KindCall(Cur(g)) /\ CallOK(Cur(g)) /\ (Starts(g) => SeedCall(kind, Cur(g)))
<1>1. Cur(g) \in ToSet(todo[g]) /\ todo[g] # <<>> /\ Cur(g).c = c /\ CallOK(Cur(g))
  BY CurOK
<1> QED BY <1>1 DEF Seeded, SeedGate, Seeding

LEMMA HolderList == ASSUME SeedStore, NEW t PROVE List(Holder(t).docs) /\ (There(t) => Holder(t) = coll[t])
  BY NoList DEF SeedStore, Holder, NewColl, There

LEMMA CreateGrown ==
  ASSUME SeedStore, NEW t, NEW x
  PROVE  Grown(IF There(t) THEN Now ELSE SetColl(t, NewColl(x)))
<1>1. CASE There(t)
  BY <1>1, GrownNow
<1>2. CASE ~There(t)
  <2>1. List(NewColl(x).docs)
    BY NoList DEF NewColl
  <2>2. Grown(SetColl(t, NewColl(x)))
    BY <1>2, <2>1, GrownColl
  <2> QED BY <1>2, <2>2
<1> QED BY <1>1, <1>2

LEMMA IndexGrown ==
  ASSUME SeedStore, NEW t, NEW x
  PROVE  Grown(IF Unfit(t, x) THEN Now ELSE SetColl(t, Stored(Holder(t), x)))
<1>1. CASE Unfit(t, x)
  BY <1>1, GrownNow
<1>2. CASE ~Unfit(t, x)
  <2>1. /\ List(Stored(Holder(t), x).docs) /\ Stored(Holder(t), x).docs # <<>>
        /\ \A f \in DOMAIN Holder(t).fields : f \in DOMAIN Stored(Holder(t), x).fields
                                              /\ Stored(Holder(t), x).fields[f] = Holder(t).fields[f]
    BY HolderList, StoredGrows
  <2>2. Grown(SetColl(t, Stored(Holder(t), x)))
    BY <2>1, HolderList, GrownColl
  <2> QED BY <1>2, <2>2
<1> QED BY <1>1, <1>2

LEMMA InsertGrown ==
  ASSUME TypeInv, SeedStore, NEW t, NEW xs, List(xs)
  PROVE  Grown(SetColl(t, InOrder(Holder(t), xs)))
<1> DEFINE a == InOrder(Holder(t), xs)
<1>1. CollOK(Holder(t)) /\ List(Holder(t).docs)
  BY HolderOK, HolderList
<1>2. a.fields = Holder(t).fields /\ List(a.docs) /\ Len(a.docs) \in Nat /\ Len(a.docs) >= Len(Holder(t).docs)
  BY <1>1, InOrderGrows
<1> HIDE DEF a
<1>3. There(t) /\ coll[t].docs # <<>> => a.docs # <<>>
  <2>1. /\ Holder(t).docs = <<>> <=> Len(Holder(t).docs) = 0
        /\ Len(Holder(t).docs) \in Nat
        /\ a.docs = <<>> <=> Len(a.docs) = 0
    BY <1>1, <1>2, ListElems
  <2>2. There(t) => Holder(t) = coll[t]
    BY HolderList
  <2> QED BY <1>2, <2>1, <2>2
<1>4. There(t) => \A f \in DOMAIN coll[t].fields : f \in DOMAIN a.fields /\ a.fields[f] = coll[t].fields[f]
  BY <1>2, HolderList
<1>5. Grown(SetColl(t, a))
  BY <1>2, <1>3, <1>4, GrownColl
<1> QED BY <1>5 DEF a

LEMMA PutDeclGrown ==
  ASSUME TypeInv, SeedStore, NEW d
  PROVE  Grown(SetDecls(IF Declared(d.table) THEN ReplaceAt(decls, Min(At(d.table)), d) ELSE Append(decls, d)))
<1>1. List(decls)
  BY DEF TypeInv, StoreOK, Now, DeclsOK
<1>2. CASE Declared(d.table)
  <2>1. Min(At(d.table)) \in 1..Len(decls) /\ decls[Min(At(d.table))].table = d.table
    BY <1>2, FirstDecl
  <2>2. \A x \in ToSet(decls) : \E e \in ToSet(ReplaceAt(decls, Min(At(d.table)), d)) : e.table = x.table
    BY <1>1, <2>1, ReplacedTables
  <2> QED BY <1>2, <2>2, GrownDecls
<1>3. CASE ~Declared(d.table)
  <2>1. ToSet(decls) \subseteq ToSet(Append(decls, d))
    BY <1>1, ListAppend
  <2> QED BY <1>3, <2>1, GrownDecls
<1> QED BY <1>2, <1>3

LEMMA AddDeclsGrown ==
  ASSUME TypeInv, SeedStore, NEW d, NEW ds, List(ds)
  PROVE  Grown(SetDecls(decls)) /\ Grown(SetDecls(Append(decls, d))) /\ Grown(SetDecls(decls \o ds))
<1>1. List(decls)
  BY DEF TypeInv, StoreOK, Now, DeclsOK
<1>2. ToSet(decls) \subseteq ToSet(Append(decls, d)) /\ ToSet(decls) \subseteq ToSet(decls \o ds)
  BY <1>1, ListAppend, ListConcat
<1> QED BY <1>2, GrownDecls

LEMMA PutMappingGrown ==
  ASSUME SeedStore, NEW t, NEW x, There(t), CollOK(coll[t])
  PROVE  Grown(SetColl(t, [coll[t] EXCEPT !.fields = Extended(@, x)]))
<1>1. [coll[t] EXCEPT !.fields = Extended(@, x)] = [fields |-> Extended(coll[t].fields, x), docs |-> coll[t].docs]
  <2>1. coll[t] = [fields |-> coll[t].fields, docs |-> coll[t].docs]
    BY DEF CollOK
  <2> QED BY <2>1, RecordFields
<1>2. List(coll[t].docs)
  BY DEF SeedStore, There
<1> DEFINE c == [coll[t] EXCEPT !.fields = Extended(@, x)]
<1>3. c.fields = Extended(coll[t].fields, x) /\ c.docs = coll[t].docs
  BY <1>1
<1> HIDE DEF c
<1>4. Grown(SetColl(t, c))
  BY <1>2, <1>3, ExtendedKeeps, GrownColl
<1> QED BY <1>4 DEF c

LEMMA ServingTables ==
  ASSUME TypeInv, TypeInv', SeedInv, Quiet, Quiet', NEW g \in Gates, up[g] = "serving",
         CreateColl(g) \/ PutMapping(g) \/ DropColl(g) \/ DeleteDecl(g)
  PROVE  Seeded'
<1>1. Seeded
  BY DEF SeedInv, Seeded
<1>2. SeedStore
  BY <1>1 DEF Seeded
<1>3. CASE CreateColl(g)
  <2>1. Does(g, "create") /\ todo[g] # <<>>
    BY <1>3, CurOK DEF CreateColl
  <2>2. Grown(IF There(Cur(g).t) THEN Now ELSE SetColl(Cur(g).t, NewColl(Cur(g).x)))
    BY <1>2, CreateGrown
  <2>3. Kindly(OnTo(g, <<>>)) /\ Kindly(Fail)
    BY <1>1, <2>1, KindNext
  <2>4. There(Cur(g).t) \in BOOLEAN
    BY DEF There
  <2> QED BY <1>3, <2>1, <2>2, <2>3, <2>4, ServingPerforms DEF CreateColl
<1>4. CASE PutMapping(g)
  <2>1. Does(g, "putMapping") /\ todo[g] # <<>>
    BY <1>4, CurOK DEF PutMapping
  <2> DEFINE c == Cur(g)
             bad == ~There(c.t) \/ \E f \in DOMAIN c.x \cap DOMAIN Holder(c.t).fields : c.x[f] # Holder(c.t).fields[f]
             new == IF bad THEN Now ELSE SetColl(c.t, [coll[c.t] EXCEPT !.fields = Extended(@, c.x)])
  <2>2. Perform(g, bad, new, OnTo(g, <<>>), Fail)
    BY <1>4 DEF PutMapping
  <2>3. bad \in BOOLEAN
    BY DEF There
  <2>4. Grown(new)
    <3>1. CASE bad
      BY <1>2, <3>1, GrownNow
    <3>2. CASE ~bad
      <4>1. There(c.t) /\ CollOK(coll[c.t])
        BY <3>2 DEF There, TypeInv, StoreOK, Now
      <4>2. Grown(SetColl(c.t, [coll[c.t] EXCEPT !.fields = Extended(@, c.x)]))
        BY <1>2, <4>1, PutMappingGrown
      <4> QED BY <3>2, <4>2
    <3> QED BY <3>1, <3>2
  <2>5. Kindly(OnTo(g, <<>>)) /\ Kindly(Fail)
    BY <1>1, <2>1, KindNext
  <2> HIDE DEF bad, new
  <2> QED BY <2>1, <2>2, <2>3, <2>4, <2>5, ServingPerforms
<1>5. CASE DropColl(g)
  BY <1>1, <1>5, CurKind DEF DropColl, KindCall
<1>6. CASE DeleteDecl(g)
  BY <1>1, <1>6, CurKind DEF DeleteDecl, KindCall
<1> QED BY <1>3, <1>4, <1>5, <1>6

LEMMA ServingRows ==
  ASSUME TypeInv, TypeInv', SeedInv, Quiet, Quiet', NEW g \in Gates, up[g] = "serving",
         IndexDoc(g) \/ InsertMany(g) \/ UpdateWhere(g) \/ DeleteWhere(g)
  PROVE  Seeded'
<1>1. Seeded /\ SeedStore
  BY DEF SeedInv, Seeded
<1>2. CASE IndexDoc(g)
  <2>1. Does(g, "index") /\ todo[g] # <<>>
    BY <1>2, CurOK DEF IndexDoc
  <2>2. Grown(IF Unfit(Cur(g).t, Cur(g).x) THEN Now ELSE SetColl(Cur(g).t, Stored(Holder(Cur(g).t), Cur(g).x)))
    BY <1>1, IndexGrown
  <2>3. Kindly(OnTo(g, <<>>)) /\ Kindly(Fail)
    BY <1>1, <2>1, KindNext
  <2>4. Unfit(Cur(g).t, Cur(g).x) \in BOOLEAN
    BY DEF Unfit
  <2> QED BY <1>2, <2>1, <2>2, <2>3, <2>4, ServingPerforms DEF IndexDoc
<1>3. CASE InsertMany(g)
  <2> DEFINE c == Cur(g)
             after == InOrder(Holder(c.t), c.x)
             bad == Len(after.docs) < Len(Docs(c.t)) + Len(c.x)
  <2>1. Does(g, "insertMany") /\ Perform(g, bad, SetColl(c.t, after), OnTo(g, <<>>), Fail)
    BY <1>3 DEF InsertMany
  <2>2. todo[g] # <<>> /\ List(c.x)
    BY <1>1, <2>1, CurKind DEF KindCall
  <2>3. Grown(SetColl(c.t, after))
    BY <1>1, <2>2, InsertGrown
  <2>4. Kindly(OnTo(g, <<>>)) /\ Kindly(Fail)
    BY <1>1, <2>2, KindNext
  <2>5. bad \in BOOLEAN
    OBVIOUS
  <2> HIDE DEF bad, after
  <2> QED BY <2>1, <2>2, <2>3, <2>4, <2>5, ServingPerforms
<1>4. CASE UpdateWhere(g)
  <2> DEFINE c == Cur(g)
             docs == Docs(c.t)
             hit == {i \in DOMAIN docs : PredsToQuery(c.x.where, docs[i])}
             after == [i \in DOMAIN docs |-> IF i \in hit THEN Assign(docs[i], c.x.set) ELSE docs[i]]
             bad == Elastic /\ (~There(c.t) \/ \E i \in hit : Unfit(c.t, after[i]))
             fields == IF Elastic /\ hit # {} THEN Learn(Holder(c.t).fields, Assign([at |-> Empty], c.x.set).at)
                                              ELSE Holder(c.t).fields
             kept == [fields |-> fields, docs |-> SubSeq(after, 1, Len(after))]
             new == IF bad \/ ~There(c.t) THEN Now ELSE SetColl(c.t, kept)
  <2>1. Does(g, "updateWhere") /\ Perform(g, bad, new, OnTo(g, <<>>), Fail)
    BY <1>4 DEF UpdateWhere
  <2>2. todo[g] # <<>>
    BY <1>1, <2>1, CurKind
  <2>3. Kindly(OnTo(g, <<>>)) /\ Kindly(Fail)
    BY <1>1, <2>2, KindNext
  <2>4. bad \in BOOLEAN
    BY DEF There, Elastic
  <2>5. There(c.t) => Holder(c.t) = coll[c.t] /\ docs = coll[c.t].docs /\ List(docs)
    BY <1>1, HolderList DEF Docs
  <2>6. ASSUME There(c.t) PROVE List(kept.docs) /\ (docs # <<>> => kept.docs # <<>>)
    <3>1. DOMAIN after = DOMAIN docs /\ after = [i \in DOMAIN docs |-> after[i]]
      OBVIOUS
    <3> HIDE DEF after, docs, fields
    <3>2. List(docs) /\ {} \subseteq DOMAIN docs
      BY <2>5, <2>6
    <3>3. List(after) /\ Len(after) = Len(docs) /\ Len(docs) \in Nat /\ (docs = <<>> <=> Len(docs) = 0)
      BY <3>1, <3>2, RewrittenList, ListElems
    <3>4. List(SubSeq(after, 1, Len(after))) /\ Len(SubSeq(after, 1, Len(after))) = Len(after)
      BY <3>3, SubSeqList
    <3>5. SubSeq(after, 1, Len(after)) = <<>> <=> Len(SubSeq(after, 1, Len(after))) = 0
      BY <3>4, ListElems
    <3> QED BY <3>3, <3>4, <3>5
  <2>7. ASSUME There(c.t), NEW f \in DOMAIN coll[c.t].fields
        PROVE  f \in DOMAIN kept.fields /\ kept.fields[f] = coll[c.t].fields[f]
    <3>1. kept.fields = fields /\ f \in DOMAIN Holder(c.t).fields /\ Holder(c.t).fields[f] = coll[c.t].fields[f]
      BY <2>5, <2>7
    <3>2. f \in DOMAIN fields /\ fields[f] = Holder(c.t).fields[f]
      <4>1. CASE Elastic /\ hit # {}
        <5>1. fields = Extended(Holder(c.t).fields, [e \in DOMAIN Assign([at |-> Empty], c.x.set).at |->
                                                       Mapped(Assign([at |-> Empty], c.x.set).at[e])])
          BY <4>1 DEF Learn
        <5> HIDE DEF fields
        <5> QED BY <3>1, <5>1, ExtendedKeeps
      <4>2. CASE ~(Elastic /\ hit # {})
        <5>1. fields = Holder(c.t).fields
          BY <4>2
        <5> HIDE DEF fields
        <5> QED BY <3>1, <5>1
      <4> QED BY <4>1, <4>2
    <3> HIDE DEF fields
    <3> QED BY <3>1, <3>2
  <2>8. Grown(new)
    <3>1. CASE bad \/ ~There(c.t)
      BY <1>1, <3>1, GrownNow
    <3>2. CASE ~(bad \/ ~There(c.t))
      <4> HIDE DEF kept, docs
      <4>1. Grown(SetColl(c.t, kept))
        BY <1>1, <2>5, <2>6, <2>7, <3>2, GrownColl
      <4> QED BY <3>2, <4>1
    <3> QED BY <3>1, <3>2
  <2> HIDE DEF bad, new
  <2> QED BY <2>1, <2>2, <2>3, <2>4, <2>8, ServingPerforms
<1>5. CASE DeleteWhere(g)
  BY <1>1, <1>5, CurKind DEF DeleteWhere, KindCall
<1> QED BY <1>2, <1>3, <1>4, <1>5

(* what making a table, and filling it, calls *)
LEMMA IndexCalls ==
  ASSUME NEW t, NEW xs, List(xs)
  PROVE  List(Calls("index", t, xs)) /\ ToSet(Calls("index", t, xs)) = {Call("index", t, x) : x \in ToSet(xs)}
<1> DEFINE s == Calls("index", t, xs)
<1>1. Len(xs) \in Nat /\ DOMAIN xs = 1..Len(xs)
  BY ListElems
<1>2. DOMAIN s = 1..Len(xs) /\ s = [i \in 1..Len(xs) |-> s[i]] /\ \A i \in 1..Len(xs) : s[i] = Call("index", t, xs[i])
  BY <1>1 DEF Calls
<1> HIDE DEF s
<1>3. List(s)
  BY <1>1, <1>2, FnList
<1>4. ToSet(s) = {Call("index", t, x) : x \in ToSet(xs)}
  BY <1>1, <1>2 DEF ToSet
<1> QED BY <1>3, <1>4 DEF s

LEMMA HybridTable ==
  ASSUME kind = "hybrid", NEW t, NEW cols, NEW key
  PROVE  LET d  == Declaration(t, Empty, key)
             c1 == Call("create", t, [c \in DOMAIN cols |-> KindToES(cols[c])])
             c2 == Call("declIndexExists", t, d)
             c3 == Call("putDecl", t, d)
         IN CreateTable(t, cols, key) = <<c1>> \o <<c2, c3>>
<1>1. Declaration(t, Empty, key).table = t
  BY DEF Declaration
<1> QED BY <1>1 DEF CreateTable, WriteCatalog

LEMMA TableCalls ==
  ASSUME NEW t, NEW cols, NEW key
  PROVE  /\ List(CreateTable(t, cols, key))
         /\ \A c \in ToSet(CreateTable(t, cols, key)) : c.c \in {"create", "declIndexExists", "putDecl"}
<1>1. \A x, y, z : Call("create", t, x).c = "create" /\ Call("declIndexExists", y, z).c = "declIndexExists"
                      /\ Call("putDecl", y, z).c = "putDecl"
  BY DEF Call
<1>2. ASSUME NEW x, NEW y, NEW z
      PROVE  LET q == <<Call("create", t, x)>> \o <<Call("declIndexExists", y, z), Call("putDecl", y, z)>> IN
             List(q) /\ \A c \in ToSet(q) : c.c \in {"create", "declIndexExists", "putDecl"}
  <2> DEFINE c1 == Call("create", t, x)
             c2 == Call("declIndexExists", y, z)
             c3 == Call("putDecl", y, z)
  <2>1. c1.c = "create" /\ c2.c = "declIndexExists" /\ c3.c = "putDecl"
    BY <1>1
  <2> HIDE DEF c1, c2, c3
  <2>2. List(<<c1>>) /\ ToSet(<<c1>>) = {c1} /\ List(<<c2, c3>>) /\ ToSet(<<c2, c3>>) = {c2, c3}
    BY OneList, TwoList
  <2>3. List(<<c1>> \o <<c2, c3>>) /\ ToSet(<<c1>> \o <<c2, c3>>) = {c1, c2, c3}
    BY <2>2, ListConcat
  <2> QED BY <2>1, <2>3 DEF c1, c2, c3
<1>3. ASSUME NEW x, NEW y, NEW z
      PROVE  LET q == <<Call("create", t, x)>> \o <<Call("putDecl", y, z)>> IN
             List(q) /\ \A c \in ToSet(q) : c.c \in {"create", "declIndexExists", "putDecl"}
  <2> DEFINE c1 == Call("create", t, x)
             c3 == Call("putDecl", y, z)
  <2>1. c1.c = "create" /\ c3.c = "putDecl"
    BY <1>1
  <2> HIDE DEF c1, c3
  <2>2. List(<<c1>>) /\ ToSet(<<c1>>) = {c1} /\ List(<<c3>>) /\ ToSet(<<c3>>) = {c3}
    BY OneList
  <2>3. List(<<c1>> \o <<c3>>) /\ ToSet(<<c1>> \o <<c3>>) = {c1, c3}
    BY <2>2, ListConcat
  <2> QED BY <2>1, <2>3 DEF c1, c3
<1>4. \A x : List(<<Call("create", t, x)>>) /\ ToSet(<<Call("create", t, x)>>) = {Call("create", t, x)}
  BY OneList
<1>5. CASE kind = "hybrid"
  BY <1>2, <1>5 DEF CreateTable, WriteCatalog
<1>6. CASE kind = "declared"
  BY <1>3, <1>6 DEF CreateTable, WriteCatalog
<1>7. CASE kind \notin {"hybrid", "declared"}
  BY <1>1, <1>4, <1>7 DEF CreateTable
<1> QED BY <1>5, <1>6, <1>7

LEMMA DemoCall ==
  ASSUME TypeInv, NEW g \in Gates, NEW c \in {"exists", "count"}, Does(g, c)
  PROVE  /\ \E i \in DOMAIN Demo : Cur(g).x = Demo[i]
         /\ Cur(g).x.name = Cur(g).t /\ Cur(g).t \in DemoNames
         /\ List(Cur(g).x.docs) /\ Cur(g).x.docs # <<>>
<1>1. PICK i \in DOMAIN Demo : Cur(g).x = Demo[i] /\ Cur(g).t = Demo[i].name
  BY CurOK DEF CallOK
<1> QED BY <1>1, DataAssumption DEF DemoNames

LEMMA KindAbsent ==
  ASSUME TypeInv, Seeded, NEW g \in Gates, NEW c \in {"exists", "count"}, Does(g, c)
  PROVE  Kindly(Absent(g))
<1> DEFINE x == Cur(g).x
           fill == Calls("index", x.name, x.docs)
           make == CreateTable(x.name, x.cols, x.key)
           look == <<Call("ensure", x.name, Empty)>>
           many == <<Call("insertMany", x.name, x.docs)>>
<1>1. List(x.docs) /\ todo[g] # <<>>
  BY DemoCall, CurOK
<1> HIDE DEF x
<1>2. List(fill) /\ \A e \in ToSet(fill) : KindCall(e)
  <2>1. \A t, y : KindCall(Call("index", t, y))
    BY DEF KindCall, Call
  <2> QED BY <1>1, <2>1, IndexCalls
<1>3. List(make) /\ \A e \in ToSet(make) : KindCall(e)
  BY TableCalls DEF KindCall
<1>4. List(look) /\ \A e \in ToSet(look) : KindCall(e)
  BY OneList DEF KindCall, Call
<1>5. List(many) /\ \A e \in ToSet(many) : KindCall(e)
  <2>1. KindCall(Call("insertMany", x.name, x.docs))
    BY <1>1 DEF KindCall, Call
  <2> QED BY <2>1, OneList
<1> HIDE DEF fill, make, look, many
<1>6. List(make \o fill) /\ (\A e \in ToSet(make \o fill) : KindCall(e))
      /\ List(look \o fill) /\ (\A e \in ToSet(look \o fill) : KindCall(e))
  BY <1>2, <1>3, <1>4, ListConcat
<1>7. Kindly(OnTo(g, make \o fill)) /\ Kindly(OnTo(g, look \o fill)) /\ Kindly(OnTo(g, many))
  BY <1>1, <1>5, <1>6, KindOnTo
<1> QED BY <1>7 DEF Absent, x, fill, make, look, many

LEMMA ServingReads ==
  ASSUME TypeInv, TypeInv', SeedInv, Quiet, Quiet', NEW g \in Gates, up[g] = "serving", todo[g] # <<>>,
         NEW bad \in BOOLEAN, NEW on, NEW off, Reads(g, bad, on, off), Kindly(on), Kindly(off)
  PROVE  Seeded'
<1>1. Grown(Now)
  BY GrownNow DEF SeedInv
<1> QED BY <1>1, ServingPerforms DEF Reads

LEMMA EachCalls ==
  ASSUME NEW c, NEW ts, List(ts)
  PROVE  List(Each(c, ts)) /\ ToSet(Each(c, ts)) = {Call(c, t, Empty) : t \in ToSet(ts)}
<1> DEFINE s == Each(c, ts)
<1>1. Len(ts) \in Nat /\ DOMAIN ts = 1..Len(ts)
  BY ListElems
<1>2. DOMAIN s = 1..Len(ts) /\ s = [i \in 1..Len(ts) |-> s[i]] /\ \A i \in 1..Len(ts) : s[i] = Call(c, ts[i], Empty)
  BY <1>1 DEF Each
<1> HIDE DEF s
<1>3. List(s)
  BY <1>1, <1>2, FnList
<1>4. ToSet(s) = {Call(c, t, Empty) : t \in ToSet(ts)}
  BY <1>1, <1>2 DEF ToSet
<1> QED BY <1>3, <1>4 DEF s

LEMMA ServingSchema ==
  ASSUME TypeInv, TypeInv', SeedInv, Quiet, Quiet', NEW g \in Gates, up[g] = "serving",
         Search(g) \/ ReadDecls(g) \/ CountDecls(g) \/ ListNames(g) \/ Mapping(g) \/ Sample(g) \/ GetDecl(g)
  PROVE  Seeded'
<1>1. Seeded
  BY DEF SeedInv, Seeded
<1>2. ASSUME todo[g] # <<>>
      PROVE  Kindly(OnTo(g, <<>>)) /\ (\A xs : Kindly(With(OnTo(g, <<>>), xs))) /\ Kindly(Fail)
  BY <1>1, <1>2, KindNext
<1>3. CASE Search(g)
  <2> DEFINE t == Cur(g).t
             cols == CASE kind = "hits"   -> {[name |-> t, cols |-> ColumnsFromHits(FirstDocs(t, ScanSize)), key |-> {}]}
                       [] kind = "static" -> {x \in StaticSchema : x.name = t}
                       [] OTHER           -> {}
             bad == Elastic /\ ~There(t)
  <2>1. Does(g, "search") /\ Reads(g, bad, With(OnTo(g, <<>>), cols), Fail)
    BY <1>3 DEF Search
  <2>2. bad \in BOOLEAN
    OBVIOUS
  <2>3. todo[g] # <<>>
    BY <2>1, CurOK
  <2> HIDE DEF bad, cols
  <2> QED BY <1>2, <2>1, <2>2, <2>3, ServingReads
<1>4. CASE ReadDecls(g)
  <2> DEFINE maps == [i \in DOMAIN decls |-> Call("mapping", decls[i].table, decls[i].key)]
             on == IF kind = "hybrid" THEN OnTo(g, maps)
                   ELSE With(OnTo(g, <<>>), {ToTable(decls[i]) : i \in DOMAIN decls})
  <2>1. Does(g, "readDecls") /\ Reads(g, FALSE, on, Fail)
    BY <1>4 DEF ReadDecls, Starts
  <2>2. todo[g] # <<>>
    BY <2>1, CurOK
  <2>3. List(maps) /\ \A e \in ToSet(maps) : KindCall(e)
    <3>1. Len(decls) \in Nat /\ DOMAIN decls = 1..Len(decls)
      BY ListElems DEF TypeInv, StoreOK, Now, DeclsOK
    <3>2. DOMAIN maps = 1..Len(decls) /\ maps = [i \in 1..Len(decls) |-> maps[i]]
          /\ \A i \in 1..Len(decls) : maps[i] = Call("mapping", decls[i].table, decls[i].key)
      BY <3>1
    <3>3. \A t, x : KindCall(Call("mapping", t, x))
      BY DEF KindCall, Call
    <3> HIDE DEF maps
    <3> QED BY <3>1, <3>2, <3>3, FnList DEF ToSet
  <2>4. Kindly(OnTo(g, maps))
    <3> HIDE DEF maps
    <3> QED BY <1>1, <2>2, <2>3, KindOnTo
  <2>5. Kindly(on)
    BY <1>2, <2>2, <2>4
  <2> HIDE DEF on
  <2> QED BY <1>2, <2>1, <2>2, <2>5, ServingReads
<1>5. CASE CountDecls(g)
  <2> DEFINE all == [i \in DOMAIN Demo |->
                       Declaration(Demo[i].name, [c \in DOMAIN Demo[i].cols |-> KindToSQL(Demo[i].cols[c])], Demo[i].key)]
             calls == IF job[g].do = "seed" THEN <<Call("insertDecls", NoTable, all)>>
                                            ELSE <<Call("listNames", NoTable, Empty)>>
             here == IF decls = <<>> THEN calls ELSE <<>>
  <2>1. Does(g, "countDecls") /\ Reads(g, FALSE, OnTo(g, here), Fail)
    BY <1>5 DEF CountDecls
  <2>2. todo[g] # <<>>
    BY <2>1, CurOK
  <2> HIDE DEF all
  <2>3. Kindly(OnTo(g, here))
    <3>1. Kindly(OnTo(g, <<Call("insertDecls", NoTable, all)>>)) /\ Kindly(OnTo(g, <<Call("listNames", NoTable, Empty)>>))
      BY <1>1, <2>2, KindOne
    <3> QED BY <1>2, <2>2, <3>1
  <2> HIDE DEF here
  <2> QED BY <1>2, <2>1, <2>2, <2>3, ServingReads
<1>6. CASE ListNames(g)
  <2> DEFINE what == IF kind = "hybrid" THEN "mapping" ELSE "sample"
             ts == Listing({t \in TableNames : There(t)})
  <2>1. PICK bad \in BOOLEAN : Does(g, "listNames") /\ Reads(g, bad, OnTo(g, Each(what, ts)), Fail)
    BY <1>6 DEF ListNames
  <2>2. todo[g] # <<>> /\ List(ts)
    BY <2>1, CurOK, TablesFinite, ListingIs
  <2> HIDE DEF ts
  <2>3. List(Each(what, ts)) /\ \A e \in ToSet(Each(what, ts)) : KindCall(e)
    <3>1. \A t : KindCall(Call(what, t, Empty))
      BY DEF KindCall, Call
    <3> HIDE DEF what
    <3> QED BY <2>2, <3>1, EachCalls
  <2> HIDE DEF what
  <2>4. Kindly(OnTo(g, Each(what, ts)))
    BY <1>1, <2>2, <2>3, KindOnTo
  <2> QED BY <1>2, <2>1, <2>2, <2>4, ServingReads
<1>7. CASE Mapping(g)
  <2> DEFINE t == Cur(g).t
             cols == IF There(t) THEN MappingColumns(t) ELSE Empty
             d == Declaration(t, Empty, {"id"} \cap DOMAIN cols)
             found == IF cols = Empty THEN {} ELSE {[name |-> t, cols |-> cols, key |-> Cur(g).x]}
             one == {[name |-> t, cols |-> cols, key |-> {}]}
             on == CASE job[g].do = "describe" -> With(OnTo(g, <<>>), found)
                     [] job[g].do = "scan" -> With(OnTo(g, <<>>), one)
                     [] OTHER -> OnTo(g, WriteCatalog(d))
             off == IF job[g].do = "describe" THEN OnTo(g, <<>>) ELSE Fail
  <2>1. Does(g, "mapping") /\ Reads(g, ~There(t), on, off)
    BY <1>7 DEF Mapping
  <2>2. todo[g] # <<>>
    BY <2>1, CurOK
  <2> HIDE DEF d, found, one
  <2>3. List(WriteCatalog(d)) /\ \A e \in ToSet(WriteCatalog(d)) : KindCall(e)
    <3>1. KindCall(Call("declIndexExists", d.table, d)) /\ KindCall(Call("putDecl", d.table, d))
      BY DEF KindCall, Call
    <3> QED BY <3>1, OneList, TwoList DEF WriteCatalog
  <2>4. Kindly(OnTo(g, WriteCatalog(d)))
    BY <1>1, <2>2, <2>3, KindOnTo
  <2>5. Kindly(on) /\ Kindly(off)
    BY <1>2, <2>2, <2>4
  <2>6. (~There(t)) \in BOOLEAN
    OBVIOUS
  <2> HIDE DEF on, off
  <2> QED BY <2>1, <2>2, <2>5, <2>6, ServingReads
<1>8. CASE Sample(g)
  <2> DEFINE t == Cur(g).t
             d == InferCatalogDoc(t, FirstDocs(t, SampleSize))
             one(cols) == {[name |-> t, cols |-> cols, key |-> IF job[g].do = "scan" THEN {} ELSE {"_id"}]}
             told(cols) == With(OnTo(g, <<>>), one(cols))
             bad == kind = "hits" /\ ~There(t)
             on == IF kind = "declared" THEN OnTo(g, <<Call("insertDecl", t, d)>>) ELSE told(ColumnsNow(t))
             cut == IF kind = "sampled" THEN {told(ColumnsOfFirst(t, n)) : n \in 0..SampleSize} ELSE {}
  <2>1. PICK off \in {Fail} \cup cut : Does(g, "sample") /\ Reads(g, bad, on, off)
    BY <1>8 DEF Sample
  <2>2. todo[g] # <<>> /\ bad \in BOOLEAN
    BY <2>1, CurOK
  <2> HIDE DEF d, one, bad
  <2>3. Kindly(OnTo(g, <<Call("insertDecl", t, d)>>))
    BY <1>1, <2>2, KindOne
  <2>4. \A cols : Kindly(told(cols))
    BY <1>2, <2>2
  <2> HIDE DEF told
  <2>5. Kindly(on)
    BY <2>3, <2>4
  <2> HIDE DEF on
  <2>6. Kindly(off)
    BY <1>2, <2>1, <2>2, <2>4
  <2> HIDE DEF cut
  <2> QED BY <2>1, <2>2, <2>5, <2>6, ServingReads
<1>9. CASE GetDecl(g)
  <2> DEFINE t == Cur(g).t
             on == IF kind = "declared" /\ Declared(t) THEN With(OnTo(g, <<>>), {ToTable(TheDecl(t))}) ELSE OnTo(g, <<>>)
  <2>1. Does(g, "getDecl") /\ Reads(g, ~Declared(t), on, Fail)
    BY <1>9 DEF GetDecl
  <2>2. todo[g] # <<>> /\ (~Declared(t)) \in BOOLEAN
    BY <2>1, CurOK
  <2>3. Kindly(on)
    BY <1>2, <2>2
  <2> HIDE DEF on
  <2> QED BY <1>2, <2>1, <2>2, <2>3, ServingReads
<1> QED BY <1>3, <1>4, <1>5, <1>6, <1>7, <1>8, <1>9

LEMMA ServingDecls ==
  ASSUME TypeInv, TypeInv', SeedInv, Quiet, Quiet', NEW g \in Gates, up[g] = "serving",
         \/ DeclIndexExists(g) \/ DeclIndexCreate(g) \/ PutDecl(g) \/ InsertDecl(g) \/ InsertDecls(g) \/ PushCols(g)
         \/ ExistsIndex(g) \/ Count(g) \/ Ensure(g)
  PROVE  Seeded'
<1>1. Seeded /\ SeedStore
  BY DEF SeedInv, Seeded
<1>2. ASSUME todo[g] # <<>> PROVE Kindly(OnTo(g, <<>>)) /\ Kindly(Fail)
  BY <1>1, <1>2, KindNext
<1>3. CASE DeclIndexExists(g)
  <2> DEFINE no == OnTo(g, <<Call("declIndexCreate", NoTable, Empty)>>)
             on == IF declIndex THEN OnTo(g, <<>>) ELSE no
  <2>1. Does(g, "declIndexExists") /\ Reads(g, FALSE, on, no)
    BY <1>3 DEF DeclIndexExists
  <2>2. todo[g] # <<>>
    BY <2>1, CurOK
  <2>3. Kindly(no)
    BY <1>1, <2>2, KindOne
  <2>4. Kindly(on)
    BY <1>2, <2>2, <2>3
  <2> HIDE DEF no, on
  <2> QED BY <2>1, <2>2, <2>3, <2>4, ServingReads
<1>4. CASE DeclIndexCreate(g)
  <2>1. Does(g, "declIndexCreate") /\ Perform(g, FALSE, SetDecls(decls), OnTo(g, <<>>), Fail)
    BY <1>4 DEF DeclIndexCreate
  <2>2. todo[g] # <<>> /\ Grown(SetDecls(decls))
    BY <1>1, <2>1, CurOK, NoList, AddDeclsGrown
  <2> QED BY <1>2, <2>1, <2>2, ServingPerforms
<1>5. CASE PutDecl(g)
  <2> DEFINE d == Cur(g).x
             ds == IF Declared(d.table) THEN ReplaceAt(decls, Min(At(d.table)), d) ELSE Append(decls, d)
  <2>1. Does(g, "putDecl") /\ Perform(g, FALSE, SetDecls(ds), OnTo(g, <<>>), Fail)
    BY <1>5 DEF PutDecl
  <2>2. todo[g] # <<>> /\ Grown(SetDecls(ds))
    BY <1>1, <2>1, CurOK, PutDeclGrown
  <2> HIDE DEF ds
  <2> QED BY <1>2, <2>1, <2>2, ServingPerforms
<1>6. CASE InsertDecl(g)
  <2> DEFINE ds == Append(decls, Cur(g).x)
  <2>1. Does(g, "insertDecl") /\ Perform(g, FALSE, SetDecls(ds), OnTo(g, <<>>), Fail)
    BY <1>6 DEF InsertDecl
  <2>2. todo[g] # <<>> /\ Grown(SetDecls(ds))
    BY <1>1, <2>1, CurOK, NoList, AddDeclsGrown
  <2> HIDE DEF ds
  <2> QED BY <1>2, <2>1, <2>2, ServingPerforms
<1>7. CASE InsertDecls(g)
  <2> DEFINE ds == decls \o Cur(g).x
  <2>1. Does(g, "insertDecls") /\ Perform(g, FALSE, SetDecls(ds), OnTo(g, <<>>), Fail)
    BY <1>7 DEF InsertDecls
  <2>2. List(Cur(g).x)
    BY <2>1, CurOK DEF CallOK, DeclsOK
  <2>3. todo[g] # <<>> /\ Grown(SetDecls(ds))
    BY <1>1, <2>1, <2>2, CurOK, AddDeclsGrown
  <2> HIDE DEF ds
  <2> QED BY <1>2, <2>1, <2>3, ServingPerforms
<1>8. CASE PushCols(g)
  <2> DEFINE c == Cur(g)
             d == Pushed(TheDecl(c.t), c.x)
             new == IF Declared(c.t) THEN SetDecls(ReplaceAt(decls, Min(At(c.t)), d)) ELSE Now
  <2>1. Does(g, "pushCols") /\ Perform(g, FALSE, new, OnTo(g, <<>>), Fail)
    BY <1>8 DEF PushCols
  <2>2. todo[g] # <<>> /\ Fields(c.x, SqlNames)
    BY <2>1, CurOK DEF CallOK
  <2>3. ASSUME Declared(c.t) PROVE Grown(SetDecls(ReplaceAt(decls, Min(At(c.t)), d)))
    <3> DEFINE old == TheDecl(c.t)
               n == Min(At(c.t))
    <3>1. DeclOK(old) /\ n \in 1..Len(decls) /\ decls[n] = old
      BY <2>3, FirstDecl
    <3>2. d.table = old.table
      BY <2>2, <3>1, PushedOK
    <3>3. List(decls)
      BY DEF TypeInv, StoreOK, Now, DeclsOK
    <3> HIDE DEF d, old, n
    <3>4. \A x \in ToSet(decls) : \E e \in ToSet(ReplaceAt(decls, n, d)) : e.table = x.table
      BY <3>1, <3>2, <3>3, ReplacedTables
    <3>5. Grown(SetDecls(ReplaceAt(decls, n, d)))
      BY <1>1, <3>4, GrownDecls
    <3> QED BY <3>5 DEF n
  <2>4. Grown(new)
    <3> HIDE DEF d
    <3> QED BY <1>1, <2>3, GrownNow
  <2> HIDE DEF new
  <2> QED BY <1>2, <2>1, <2>2, <2>4, ServingPerforms
<1>9. CASE ExistsIndex(g)
  <2> DEFINE on == IF There(Cur(g).t) THEN OnTo(g, <<>>) ELSE Absent(g)
  <2>1. Does(g, "exists") /\ Reads(g, FALSE, on, Absent(g))
    BY <1>9 DEF ExistsIndex
  <2>2. todo[g] # <<>> /\ Kindly(Absent(g))
    BY <1>1, <2>1, CurOK, KindAbsent
  <2>3. Kindly(on)
    BY <1>2, <2>2
  <2> HIDE DEF on
  <2> QED BY <2>1, <2>2, <2>3, ServingReads
<1>10. CASE Count(g)
  <2> DEFINE on == IF Docs(Cur(g).t) # <<>> THEN OnTo(g, <<>>) ELSE Absent(g)
             off == IF kind = "hits" THEN Absent(g) ELSE Fail
  <2>1. Does(g, "count") /\ Reads(g, FALSE, on, off)
    BY <1>10 DEF Count
  <2>2. todo[g] # <<>> /\ Kindly(Absent(g))
    BY <1>1, <2>1, CurOK, KindAbsent
  <2>3. Kindly(on) /\ Kindly(off)
    BY <1>2, <2>2
  <2> HIDE DEF on, off
  <2> QED BY <2>1, <2>2, <2>3, ServingReads
<1>11. CASE Ensure(g)
  <2> DEFINE t == Cur(g).t
             on == OnTo(g, IF There(t) THEN <<>> ELSE <<Call("create", t, Empty)>>)
  <2>1. Does(g, "ensure") /\ Reads(g, FALSE, on, Fail)
    BY <1>11 DEF Ensure
  <2>2. todo[g] # <<>>
    BY <2>1, CurOK
  <2>3. Kindly(OnTo(g, <<Call("create", t, Empty)>>))
    BY <1>1, <2>2, KindOne
  <2>4. Kindly(on)
    BY <1>2, <2>2, <2>3
  <2> HIDE DEF on
  <2> QED BY <1>2, <2>1, <2>2, <2>4, ServingReads
<1> QED BY <1>3, <1>4, <1>5, <1>6, <1>7, <1>8, <1>9, <1>10, <1>11

LEMMA ServingStep ==
  ASSUME TypeInv, TypeInv', SeedInv, Quiet, Quiet', NEW g \in Gates, up[g] = "serving", Step(g)
  PROVE  Seeded'
BY ServingTables, ServingRows, ServingSchema, ServingDecls DEF Step

-----------------------------------------------------------------------------
(* Steps: of a gateway that starts *)

LEMMA SetCollIs ==
  ASSUME NEW t, NEW c, NEW g, NEW r, Outcome(g, SetColl(t, c), r)
  PROVE  /\ There(t)' /\ coll'[t] = c /\ Docs(t)' = c.docs /\ decls' = decls
         /\ \A u : There(u)' <=> There(u) \/ u = t
<1>1. coll' = [u \in DOMAIN coll \cup {t} |-> IF u = t THEN c ELSE coll[u]] /\ decls' = decls
  BY DEF Outcome, SetColl, Now
<1> QED BY <1>1 DEF There, Docs

LEMMA NowIs ==
  ASSUME NEW g, NEW r, Outcome(g, Now, r)
  PROVE  coll' = coll /\ decls' = decls /\ (\A u : There(u)' <=> There(u)) /\ (\A u : Docs(u)' = Docs(u))
BY DEF Outcome, Now, There, Docs

LEMMA SetDeclsIs ==
  ASSUME NEW ds, NEW g, NEW r, Outcome(g, SetDecls(ds), r)
  PROVE  coll' = coll /\ decls' = ds /\ (\A u : There(u)' <=> There(u)) /\ (\A u : Docs(u)' = Docs(u))
BY DEF Outcome, SetDecls, Now, There, Docs

(* a start that fails: the gateway is down, and leaves an index to nobody *)
LEMMA StartFails ==
  ASSUME TypeInv, TypeInv', SeedInv, Quiet, NEW g \in Gates, Starts(g), todo[g] # <<>>,
         NEW s, Grown(s), Outcome(g, s, Fail), decls' = decls,
         kind = "hybrid" => Cur(g).c = "create" /\ \A t : There(t)' => There(t)
  PROVE  Seeded'
<1>1. todo'[g] = <<>> /\ up'[g] = "down"
  BY DEF Outcome, Fail, TypeInv
<1>2. SeedGate(g)'
  BY <1>1, NoList DEF SeedGate, Starts
<1>3. Honest(g)
  BY DEF Honest, Owes
<1> QED BY <1>2, <1>3, OutcomeSeeds DEF Seeded

(* how a start goes on: what it calls next, and what it has called for *)
LEMMA GoesOn ==
  ASSUME TypeInv, NEW g \in Gates, Starts(g), todo[g] # <<>>, NEW s, NEW calls, List(calls), Outcome(g, s, OnTo(g, calls))
  PROVE  /\ up' = up /\ job' = job /\ kind' = kind /\ todo'[g] = calls \o Tail(todo[g]) /\ Starts(g)'
         /\ coll' = s.coll /\ decls' = s.decls
         /\ List(todo[g]) /\ List(Tail(todo[g])) /\ Cur(g) = todo[g][1]
         /\ ToSet(todo[g]) = {Cur(g)} \cup ToSet(Tail(todo[g]))
         /\ List(todo'[g]) /\ ToSet(todo'[g]) = ToSet(calls) \cup ToSet(Tail(todo[g]))
<1>1. List(todo[g])
  BY DEF TypeInv, GateOK, CallsOK
<1>2. /\ List(Tail(todo[g])) /\ Cur(g) = todo[g][1]
      /\ ToSet(todo[g]) = {Cur(g)} \cup ToSet(Tail(todo[g]))
  BY <1>1, ListTail DEF Cur
<1>3. up' = up /\ job' = job /\ kind' = kind /\ todo'[g] = calls \o Tail(todo[g])
      /\ coll' = s.coll /\ decls' = s.decls
  BY DEF Outcome, OnTo, TypeInv
<1>4. List(calls \o Tail(todo[g])) /\ ToSet(calls \o Tail(todo[g])) = ToSet(calls) \cup ToSet(Tail(todo[g]))
  BY <1>2, ListConcat
<1> QED BY <1>1, <1>2, <1>3, <1>4 DEF Starts

Fills == {"count", "index", "insertMany"}
Declares == {"countDecls", "insertDecls"}

LEMMA PlainGoes ==
  ASSUME TypeInv, TypeInv', SeedInv, Quiet, NEW g \in Gates, Starts(g), todo[g] # <<>>, kind # "hybrid",
         NEW s, Grown(s), NEW calls, List(calls), \A c \in ToSet(calls) : KindCall(c) /\ SeedCall(kind, c),
         Outcome(g, s, OnTo(g, calls)),
         \A t : Cur(g).c \in Fills /\ Cur(g).t = t => Docs(t)' # <<>> \/ Has(calls, Fills, t),
         kind = "declared" /\ Cur(g).c \in Declares => AllDeclared' \/ \E c \in ToSet(calls) : c.c \in Declares,
         kind = "declared" => decls' = decls \/ AllDeclared'
  PROVE  Seeded'
<1> DEFINE q == todo[g]
           p == todo'[g]
<1>1. /\ up' = up /\ job' = job /\ kind' = kind /\ Starts(g)' /\ coll' = s.coll /\ decls' = s.decls
      /\ ToSet(q) = {Cur(g)} \cup ToSet(Tail(q)) /\ ToSet(p) = ToSet(calls) \cup ToSet(Tail(q))
  BY GoesOn
<1>2. SeedGate(g) /\ Seeding(g) /\ Provided(g)
  BY DEF SeedInv, SeedGate, Starts
<1>3. \A c \in ToSet(p) : KindCall(c) /\ SeedCall(kind, c)
  BY <1>1, <1>2 DEF SeedGate, Seeding
<1>4. Seeding(g)'
  <2>1. \A c \in ToSet(p) : SeedCall(kind', c)
    BY <1>1, <1>3
  <2> QED BY <1>1, <1>2, <2>1 DEF Seeding, SeedCall
<1>5. \A t \in DemoNames : Docs(t)' # <<>> \/ Has(p, Fills, t)
  <2> TAKE t \in DemoNames
  <2>1. Docs(t) # <<>> \/ Has(q, Fills, t)
    BY <1>2 DEF Provided, Fills
  <2>2. CASE Docs(t) # <<>>
    BY <1>1, <2>2, GrownKeeps
  <2>3. CASE Has(q, Fills, t)
    <3>1. PICK c \in ToSet(q) : c.c \in Fills /\ c.t = t
      BY <2>3 DEF Has
    <3>2. CASE c \in ToSet(Tail(q))
      BY <1>1, <3>1, <3>2 DEF Has
    <3>3. CASE c = Cur(g)
      <4>1. Docs(t)' # <<>> \/ Has(calls, Fills, t)
        BY <3>1, <3>3
      <4>2. Has(calls, Fills, t) => Has(p, Fills, t)
        BY <1>1 DEF Has
      <4> QED BY <4>1, <4>2
    <3> QED BY <1>1, <3>1, <3>2, <3>3
  <2> QED BY <2>1, <2>2, <2>3
<1>6. kind = "declared" => AllDeclared' \/ \E c \in ToSet(p) : c.c \in Declares
  <2> SUFFICES ASSUME kind = "declared" PROVE AllDeclared' \/ \E c \in ToSet(p) : c.c \in Declares
    OBVIOUS
  <2>1. AllDeclared \/ \E c \in ToSet(q) : c.c \in Declares
    BY <1>2 DEF Provided, Declares
  <2>2. CASE AllDeclared
    BY <1>1, <2>2, GrownKeeps
  <2>3. CASE \E c \in ToSet(q) : c.c \in Declares
    BY <1>1, <2>3
  <2> QED BY <2>1, <2>2, <2>3
<1>7. Provided(g)'
  BY <1>1, <1>5, <1>6 DEF Provided, Fills, Declares
<1>8. SeedGate(g)'
  BY <1>1, <1>3, <1>4, <1>7 DEF SeedGate
<1>9. Honest(g)
  BY DEF Honest
<1> QED BY <1>8, <1>9, OutcomeSeeds DEF Seeded

LEMMA PlainCount ==
  ASSUME TypeInv, TypeInv', SeedInv, Quiet, Quiet', NEW g \in Gates, Starts(g), kind # "hybrid", Count(g)
  PROVE  Seeded'
<1> DEFINE x == Cur(g).x
           on == IF Docs(Cur(g).t) # <<>> THEN OnTo(g, <<>>) ELSE Absent(g)
           off == IF kind = "hits" THEN Absent(g) ELSE Fail
<1>1. Does(g, "count") /\ Perform(g, FALSE, Now, on, off)
  BY DEF Count, Reads
<1>2. Outcome(g, Now, on)
  <2> HIDE DEF on, off
  <2> QED BY <1>1, QuietOutcomes
<1>3. Seeded /\ SeedStore /\ Grown(Now)
  BY GrownNow DEF SeedInv, Seeded
<1>4. todo[g] # <<>> /\ Cur(g).c = "count" /\ SeedCall(kind, Cur(g))
  BY <1>1, <1>3, CurKind
<1>5. x.name = Cur(g).t /\ List(x.docs) /\ x.docs # <<>>
  BY <1>1, DemoCall
<1>6. decls' = decls /\ \A u : Docs(u)' = Docs(u)
  BY <1>2, NowIs
<1>7. CASE Docs(Cur(g).t) # <<>>
  <2>1. Outcome(g, Now, OnTo(g, <<>>))
    BY <1>2, <1>7
  <2>2. \A t : Cur(g).t = t => Docs(t)' # <<>>
    BY <1>6, <1>7
  <2> QED BY <1>3, <1>4, <1>6, <2>1, <2>2, NoList, PlainGoes DEF Declares
<1>8. CASE Docs(Cur(g).t) = <<>> /\ kind = "hits"
  <2> DEFINE fill == Calls("index", x.name, x.docs)
             look == <<Call("ensure", x.name, Empty)>>
  <2>1. Outcome(g, Now, OnTo(g, look \o fill))
    BY <1>2, <1>8 DEF Absent
  <2> HIDE DEF x
  <2>2. List(fill) /\ ToSet(fill) = {Call("index", x.name, d) : d \in ToSet(x.docs)}
    BY <1>5, IndexCalls
  <2>3. List(look) /\ ToSet(look) = {Call("ensure", x.name, Empty)}
    BY OneList
  <2> HIDE DEF fill, look
  <2>4. List(look \o fill) /\ ToSet(look \o fill) = ToSet(look) \cup ToSet(fill)
    BY <2>2, <2>3, ListConcat
  <2>5. \A c \in ToSet(look \o fill) : KindCall(c) /\ SeedCall(kind, c)
    <3>1. \A c, t, y : c \in {"ensure", "index"} => KindCall(Call(c, t, y)) /\ SeedCall(kind, Call(c, t, y))
      BY <1>8 DEF KindCall, SeedCall, SeedCalls, Call
    <3> QED BY <2>2, <2>3, <2>4, <3>1
  <2>6. Has(look \o fill, Fills, x.name)
    <3>1. PICK d : d \in ToSet(x.docs)
      <4>1. Len(x.docs) > 0 /\ Len(x.docs) \in Nat
        BY <1>5, ListElems
      <4>2. 1 \in 1..Len(x.docs)
        BY <4>1
      <4> QED BY <1>5, <4>2, ListElems
    <3>2. Call("index", x.name, d).c = "index" /\ Call("index", x.name, d).t = x.name
      BY DEF Call
    <3> QED BY <2>2, <2>4, <3>1, <3>2 DEF Has, Fills
  <2> QED BY <1>3, <1>4, <1>5, <1>6, <1>8, <2>1, <2>4, <2>5, <2>6, PlainGoes DEF Declares
<1>9. CASE Docs(Cur(g).t) = <<>> /\ kind # "hits"
  <2> DEFINE one == Call("insertMany", x.name, x.docs)
  <2>1. Outcome(g, Now, OnTo(g, <<one>>))
    BY <1>2, <1>9 DEF Absent
  <2> HIDE DEF x
  <2>2. one.c = "insertMany" /\ one.t = x.name /\ one.x = x.docs
    BY DEF Call
  <2> HIDE DEF one
  <2>3. List(<<one>>) /\ ToSet(<<one>>) = {one}
    BY OneList
  <2>4. KindCall(one) /\ SeedCall(kind, one)
    <3>1. "insertMany" \in SeedCalls(kind)
      BY <1>9 DEF SeedCalls
    <3> QED BY <1>5, <2>2, <3>1 DEF KindCall, SeedCall
  <2>5. Has(<<one>>, Fills, x.name)
    BY <2>2, <2>3 DEF Has, Fills
  <2> QED BY <1>3, <1>4, <1>5, <1>6, <2>1, <2>3, <2>4, <2>5, PlainGoes DEF Declares
<1> QED BY <1>7, <1>8, <1>9

LEMMA PlainTables ==
  ASSUME TypeInv, TypeInv', SeedInv, Quiet, Quiet', NEW g \in Gates, Starts(g), kind # "hybrid",
         Ensure(g) \/ CreateColl(g) \/ IndexDoc(g)
  PROVE  Seeded'
<1>1. Seeded /\ SeedStore /\ Grown(Now)
  BY GrownNow DEF SeedInv, Seeded
<1>2. ASSUME NEW c, Does(g, c) PROVE todo[g] # <<>> /\ Cur(g).c = c /\ c \in SeedCalls(kind)
  BY <1>1, <1>2, CurKind DEF SeedCall
<1>3. CASE Ensure(g)
  <2> DEFINE one == Call("create", Cur(g).t, Empty)
             calls == IF There(Cur(g).t) THEN <<>> ELSE <<one>>
  <2>1. Does(g, "ensure") /\ Perform(g, FALSE, Now, OnTo(g, calls), Fail)
    BY <1>3 DEF Ensure, Reads
  <2>2. todo[g] # <<>> /\ Cur(g).c = "ensure" /\ kind = "hits"
    BY <1>2, <2>1 DEF SeedCalls
  <2>3. List(calls) /\ \A c \in ToSet(calls) : KindCall(c) /\ SeedCall(kind, c)
    <3>1. KindCall(one) /\ SeedCall(kind, one)
      BY <2>2 DEF KindCall, SeedCall, SeedCalls, Call
    <3> HIDE DEF one
    <3> QED BY <3>1, NoList, OneList
  <2> HIDE DEF calls
  <2>4. Outcome(g, Now, OnTo(g, calls))
    BY <2>1, QuietOutcomes
  <2> QED BY <1>1, <2>2, <2>3, <2>4, PlainGoes DEF Fills
<1>4. CASE CreateColl(g)
  <2> DEFINE t == Cur(g).t
             bad == There(t)
             new == IF There(t) THEN Now ELSE SetColl(t, NewColl(Cur(g).x))
  <2>1. Does(g, "create") /\ Perform(g, bad, new, OnTo(g, <<>>), Fail)
    BY <1>4 DEF CreateColl
  <2>2. todo[g] # <<>> /\ Cur(g).c = "create" /\ kind = "hits"
    BY <1>2, <2>1 DEF SeedCalls
  <2>3. Grown(new)
    BY <1>1, CreateGrown
  <2>4. bad \in BOOLEAN
    BY DEF There
  <2>5. \A r : Outcome(g, new, r) => decls' = decls
    BY NowIs, SetCollIs
  <2> HIDE DEF new, bad
  <2>6. Outcome(g, new, OnTo(g, <<>>)) \/ Outcome(g, new, Fail)
    BY <2>1, <2>4, QuietOutcomes
  <2>7. CASE Outcome(g, new, OnTo(g, <<>>))
    BY <2>2, <2>3, <2>7, NoList, PlainGoes DEF Fills
  <2>8. CASE Outcome(g, new, Fail)
    BY <2>2, <2>3, <2>5, <2>8, StartFails
  <2> QED BY <2>6, <2>7, <2>8
<1>5. CASE IndexDoc(g)
  <2> DEFINE u == Cur(g).t
             x == Cur(g).x
             bad == Unfit(u, x)
             new == IF bad THEN Now ELSE SetColl(u, Stored(Holder(u), x))
  <2>1. Does(g, "index") /\ Perform(g, bad, new, OnTo(g, <<>>), Fail)
    BY <1>5 DEF IndexDoc
  <2>2. todo[g] # <<>> /\ Cur(g).c = "index" /\ kind = "hits"
    BY <1>2, <2>1 DEF SeedCalls
  <2>3. Grown(new)
    BY <1>1, IndexGrown
  <2>4. bad \in BOOLEAN
    BY DEF Unfit
  <2>5. \A r : Outcome(g, new, r) => decls' = decls
    BY NowIs, SetCollIs
  <2>6. (~bad /\ Outcome(g, new, OnTo(g, <<>>))) \/ Outcome(g, new, Fail)
    <3> HIDE DEF new, bad
    <3> QED BY <2>1, <2>4, QuietOutcomes
  <2>7. CASE ~bad /\ Outcome(g, new, OnTo(g, <<>>))
    <3>1. Stored(Holder(u), x).docs # <<>>
      BY <1>1, HolderList, StoredGrows
    <3>2. \A t : u = t => Docs(t)' # <<>>
      BY <2>7, <3>1, SetCollIs
    <3> HIDE DEF new, bad
    <3> QED BY <2>2, <2>3, <2>7, <3>2, NoList, PlainGoes
  <2>8. CASE Outcome(g, new, Fail)
    <3> HIDE DEF new, bad
    <3> QED BY <2>2, <2>3, <2>5, <2>8, StartFails
  <2> QED BY <2>6, <2>7, <2>8
<1> QED BY <1>3, <1>4, <1>5

LEMMA PlainMany ==
  ASSUME TypeInv, TypeInv', SeedInv, Quiet, Quiet', NEW g \in Gates, Starts(g), kind # "hybrid", InsertMany(g)
  PROVE  Seeded'
<1> DEFINE u == Cur(g).t
           x == Cur(g).x
           after == InOrder(Holder(u), x)
           bad == Len(after.docs) < Len(Docs(u)) + Len(x)
           new == SetColl(u, after)
<1>1. Seeded /\ SeedStore
  BY DEF SeedInv, Seeded
<1>2. Does(g, "insertMany") /\ Perform(g, bad, new, OnTo(g, <<>>), Fail)
  BY DEF InsertMany
<1>3. todo[g] # <<>> /\ Cur(g).c = "insertMany" /\ List(x) /\ x # <<>>
  BY <1>1, <1>2, CurKind DEF KindCall, SeedCall
<1>4. Grown(new)
  BY <1>1, <1>3, InsertGrown
<1>5. bad \in BOOLEAN
  OBVIOUS
<1>6. \A r : Outcome(g, new, r) => decls' = decls /\ \A t : u = t => Docs(t)' = after.docs
  <2> HIDE DEF after
  <2> QED BY SetCollIs
<1>7. ~bad => after.docs # <<>>
  <2>1. /\ List(after.docs) /\ Len(after.docs) \in Nat
        /\ List(Holder(u).docs) /\ Docs(u) = Holder(u).docs
    <3>1. Docs(u) = Holder(u).docs
      BY DEF Docs, Holder, NewColl
    <3>2. CollOK(Holder(u)) /\ List(Holder(u).docs)
      BY <1>1, HolderOK, HolderList
    <3> QED BY <1>3, <3>1, <3>2, InOrderGrows
  <2>2. /\ Len(x) \in Nat /\ Len(x) # 0 /\ Len(Docs(u)) \in Nat
        /\ after.docs = <<>> <=> Len(after.docs) = 0
    BY <1>3, <2>1, ListElems
  <2> HIDE DEF after, x, u
  <2> QED BY <2>1, <2>2
<1> HIDE DEF bad, new
<1>8. (~bad /\ Outcome(g, new, OnTo(g, <<>>))) \/ Outcome(g, new, Fail)
  BY <1>2, <1>5, QuietOutcomes
<1>9. CASE ~bad /\ Outcome(g, new, OnTo(g, <<>>))
  <2>1. \A t : u = t => Docs(t)' # <<>>
    BY <1>6, <1>7, <1>9
  <2> QED BY <1>3, <1>4, <1>6, <1>9, <2>1, NoList, PlainGoes DEF Declares
<1>10. CASE Outcome(g, new, Fail)
  BY <1>3, <1>4, <1>6, <1>10, StartFails
<1> QED BY <1>8, <1>9, <1>10

LEMMA PlainDecls ==
  ASSUME TypeInv, TypeInv', SeedInv, Quiet, Quiet', NEW g \in Gates, Starts(g), kind # "hybrid",
         CountDecls(g) \/ InsertDecls(g)
  PROVE  Seeded'
<1>1. Seeded /\ SeedStore /\ Grown(Now)
  BY GrownNow DEF SeedInv, Seeded
<1>2. ASSUME NEW c, Does(g, c)
      PROVE  todo[g] # <<>> /\ Cur(g).c = c /\ c \in SeedCalls(kind) /\ SeedCall(kind, Cur(g)) /\ job[g].do = "seed"
  <2>1. todo[g] # <<>> /\ Cur(g).c = c /\ SeedCall(kind, Cur(g))
    BY <1>1, <1>2, CurKind
  <2>2. job[g].do = "seed"
    BY <1>1 DEF Seeded, SeedGate, Seeding
  <2> QED BY <2>1, <2>2 DEF SeedCall
<1>3. CASE CountDecls(g)
  <2> DEFINE all == [i \in DOMAIN Demo |->
                       Declaration(Demo[i].name, [c \in DOMAIN Demo[i].cols |-> KindToSQL(Demo[i].cols[c])], Demo[i].key)]
             one == Call("insertDecls", NoTable, all)
             calls == IF decls = <<>> THEN <<one>> ELSE <<>>
  <2>1. Does(g, "countDecls")
    BY <1>3 DEF CountDecls
  <2>2. todo[g] # <<>> /\ Cur(g).c = "countDecls" /\ kind = "declared" /\ job[g].do = "seed"
    BY <1>2, <2>1 DEF SeedCalls
  <2>3. Perform(g, FALSE, Now, OnTo(g, calls), Fail)
    <3>1. Perform(g, FALSE, Now, OnTo(g, IF decls = <<>> THEN IF job[g].do = "seed" THEN <<one>>
                                         ELSE <<Call("listNames", NoTable, Empty)>> ELSE <<>>), Fail)
      BY <1>3 DEF CountDecls, Reads
    <3> HIDE DEF one
    <3> QED BY <2>2, <3>1
  <2>4. one.c = "insertDecls" /\ one.t = NoTable /\ one.x = all
    BY DEF Call
  <2>5. \A t \in DemoNames : \E d \in ToSet(all) : d.table = t
    <3> TAKE t \in DemoNames
    <3>1. PICK i \in DOMAIN Demo : t = Demo[i].name
      BY DEF DemoNames
    <3>2. i \in DOMAIN all /\ all[i].table = t
      BY <3>1 DEF Declaration
    <3> HIDE DEF all
    <3> QED BY <3>2 DEF ToSet
  <2> HIDE DEF all
  <2>6. KindCall(one) /\ SeedCall(kind, one)
    BY <2>2, <2>4, <2>5 DEF KindCall, SeedCall, SeedCalls
  <2> HIDE DEF one
  <2>7. List(<<one>>) /\ ToSet(<<one>>) = {one} /\ List(<<>>) /\ ToSet(<<>>) = {}
    BY OneList, NoList
  <2>8. List(calls) /\ \A c \in ToSet(calls) : KindCall(c) /\ SeedCall(kind, c)
    BY <2>6, <2>7
  <2>9. Outcome(g, Now, OnTo(g, calls))
    <3> HIDE DEF calls
    <3> QED BY <2>3, QuietOutcomes
  <2>10. AllDeclared' \/ \E c \in ToSet(calls) : c.c \in Declares
    <3>1. CASE decls = <<>>
      BY <2>4, <2>7, <3>1 DEF Declares
    <3>2. CASE decls # <<>>
      <4>1. AllDeclared
        BY <1>1, <2>2, <3>2 DEF SeedStore
      <4> HIDE DEF calls
      <4> QED BY <1>1, <2>9, <4>1, GoesOn, GrownKeeps DEF Outcome
    <3> QED BY <3>1, <3>2
  <2>11. decls' = decls
    <3> HIDE DEF calls
    <3> QED BY <2>9, NowIs
  <2> HIDE DEF calls
  <2> QED BY <1>1, <2>2, <2>8, <2>9, <2>10, <2>11, PlainGoes DEF Fills
<1>4. CASE InsertDecls(g)
  <2> DEFINE ds == decls \o Cur(g).x
             new == SetDecls(ds)
  <2>1. Does(g, "insertDecls") /\ Perform(g, FALSE, new, OnTo(g, <<>>), Fail)
    BY <1>4 DEF InsertDecls
  <2>2. todo[g] # <<>> /\ Cur(g).c = "insertDecls" /\ kind = "declared"
    BY <1>2, <2>1 DEF SeedCalls
  <2>3. List(Cur(g).x) /\ List(decls)
    BY <2>1, CurOK DEF CallOK, DeclsOK, TypeInv, StoreOK, Now
  <2>4. Grown(new)
    BY <1>1, <2>3, AddDeclsGrown
  <2>5. Outcome(g, new, OnTo(g, <<>>))
    <3> HIDE DEF new
    <3> QED BY <2>1, QuietOutcomes
  <2>6. decls' = ds
    <3> HIDE DEF ds
    <3> QED BY <2>5, SetDeclsIs
  <2>7. AllDeclared'
    <3>1. ToSet(ds) = ToSet(decls) \cup ToSet(Cur(g).x)
      BY <2>3, ListConcat
    <3>2. \A t \in DemoNames : \E d \in ToSet(Cur(g).x) : d.table = t
      BY <1>2, <2>1, <2>2 DEF SeedCall
    <3>3. \A t \in DemoNames : \E d \in ToSet(decls') : d.table = t
      BY <2>6, <3>1, <3>2
    <3>4. List(decls')
      BY DEF TypeInv, StoreOK, Now, DeclsOK
    <3>5. \A t : Declared(t)' <=> \E d \in ToSet(decls') : d.table = t
      BY <3>4, ListElems DEF Declared, At
    <3> QED BY <3>3, <3>5 DEF AllDeclared
  <2> HIDE DEF new
  <2> QED BY <2>2, <2>4, <2>5, <2>7, NoList, PlainGoes DEF Fills
<1> QED BY <1>3, <1>4

(* a step is of the call that comes first *)
LEMMA StepOf ==
  ASSUME NEW g, Step(g)
  PROVE  \/ CreateColl(g) /\ Does(g, "create")
         \/ PutMapping(g) /\ Does(g, "putMapping")
         \/ DropColl(g) /\ Does(g, "drop")
         \/ DeleteDecl(g) /\ Does(g, "deleteDecl")
         \/ IndexDoc(g) /\ Does(g, "index")
         \/ InsertMany(g) /\ Does(g, "insertMany")
         \/ UpdateWhere(g) /\ Does(g, "updateWhere")
         \/ DeleteWhere(g) /\ Does(g, "deleteWhere")
         \/ Search(g) /\ Does(g, "search")
         \/ ReadDecls(g) /\ Does(g, "readDecls")
         \/ CountDecls(g) /\ Does(g, "countDecls")
         \/ ListNames(g) /\ Does(g, "listNames")
         \/ Mapping(g) /\ Does(g, "mapping")
         \/ Sample(g) /\ Does(g, "sample")
         \/ DeclIndexExists(g) /\ Does(g, "declIndexExists")
         \/ DeclIndexCreate(g) /\ Does(g, "declIndexCreate")
         \/ PutDecl(g) /\ Does(g, "putDecl")
         \/ InsertDecl(g) /\ Does(g, "insertDecl")
         \/ InsertDecls(g) /\ Does(g, "insertDecls")
         \/ PushCols(g) /\ Does(g, "pushCols")
         \/ GetDecl(g) /\ Does(g, "getDecl")
         \/ ExistsIndex(g) /\ Does(g, "exists")
         \/ Count(g) /\ Does(g, "count")
         \/ Ensure(g) /\ Does(g, "ensure")
<1>1. /\ CreateColl(g) => Does(g, "create")
      /\ PutMapping(g) => Does(g, "putMapping")
      /\ DropColl(g) => Does(g, "drop")
  BY Zenon DEF CreateColl, PutMapping, DropColl
<1>2. /\ DeleteDecl(g) => Does(g, "deleteDecl")
      /\ IndexDoc(g) => Does(g, "index")
      /\ InsertMany(g) => Does(g, "insertMany")
  BY Zenon DEF DeleteDecl, IndexDoc, InsertMany
<1>3. /\ UpdateWhere(g) => Does(g, "updateWhere")
      /\ DeleteWhere(g) => Does(g, "deleteWhere")
      /\ Search(g) => Does(g, "search")
  BY Zenon DEF UpdateWhere, DeleteWhere, Search
<1>4. /\ ReadDecls(g) => Does(g, "readDecls")
      /\ CountDecls(g) => Does(g, "countDecls")
      /\ ListNames(g) => Does(g, "listNames")
  BY Zenon DEF ReadDecls, CountDecls, ListNames
<1>5. /\ Mapping(g) => Does(g, "mapping")
      /\ Sample(g) => Does(g, "sample")
      /\ DeclIndexExists(g) => Does(g, "declIndexExists")
  BY Zenon DEF Mapping, Sample, DeclIndexExists
<1>6. /\ DeclIndexCreate(g) => Does(g, "declIndexCreate")
      /\ PutDecl(g) => Does(g, "putDecl")
      /\ InsertDecl(g) => Does(g, "insertDecl")
  BY Zenon DEF DeclIndexCreate, PutDecl, InsertDecl
<1>7. /\ InsertDecls(g) => Does(g, "insertDecls")
      /\ PushCols(g) => Does(g, "pushCols")
      /\ GetDecl(g) => Does(g, "getDecl")
  BY Zenon DEF InsertDecls, PushCols, GetDecl
<1>8. /\ ExistsIndex(g) => Does(g, "exists")
      /\ Count(g) => Does(g, "count")
      /\ Ensure(g) => Does(g, "ensure")
  BY Zenon DEF ExistsIndex, Count, Ensure
<1> QED BY <1>1, <1>2, <1>3, <1>4, <1>5, <1>6, <1>7, <1>8 DEF Step

LEMMA StartingPlain ==
  ASSUME TypeInv, TypeInv', SeedInv, Quiet, Quiet', NEW g \in Gates, Starts(g), kind # "hybrid", Step(g)
  PROVE  Seeded'
<1>1. Seeded
  BY DEF SeedInv, Seeded
<1>2. ASSUME NEW c, Does(g, c)
      PROVE  c \in {"count", "ensure", "create", "index", "insertMany", "countDecls", "insertDecls"}
  BY <1>1, <1>2, CurKind DEF SeedCall, SeedCalls
<1>3. Count(g) \/ Ensure(g) \/ CreateColl(g) \/ IndexDoc(g) \/ InsertMany(g) \/ CountDecls(g) \/ InsertDecls(g)
  BY <1>2, StepOf
<1> QED BY <1>3, PlainCount, PlainTables, PlainMany, PlainDecls

(* "hybrid": the queue that is left is in order, and owes what it is to    *)
LEMMA HybridGoes ==
  ASSUME TypeInv, TypeInv', SeedInv, Quiet, NEW g \in Gates, Starts(g), todo[g] # <<>>, kind = "hybrid",
         NEW s, Grown(s), NEW calls, List(calls), \A c \in ToSet(calls) : KindCall(c) /\ SeedCall(kind, c),
         Outcome(g, s, OnTo(g, calls)),
         Ordered(todo'[g]), todo'[g] # <<>> => Making(todo'[g]) /\ Filling(todo[g])',
         \A t : Cur(g).c \in {"exists", "create"} /\ Cur(g).t = t => There(t)' \/ Has(calls, {"exists", "create"}, t),
         Honest(g)
  PROVE  Seeded'
<1> DEFINE q == todo[g]
           p == todo'[g]
<1>1. /\ up' = up /\ job' = job /\ kind' = kind /\ Starts(g)' /\ coll' = s.coll /\ decls' = s.decls
      /\ ToSet(q) = {Cur(g)} \cup ToSet(Tail(q)) /\ ToSet(p) = ToSet(calls) \cup ToSet(Tail(q))
  BY GoesOn
<1>2. SeedGate(g) /\ Seeding(g) /\ Provided(g)
  BY DEF SeedInv, SeedGate, Starts
<1>3. \A c \in ToSet(p) : KindCall(c) /\ SeedCall(kind, c)
  BY <1>1, <1>2 DEF SeedGate, Seeding
<1>4. Seeding(g)'
  <2>1. \A c \in ToSet(p) : SeedCall(kind', c)
    BY <1>1, <1>3
  <2> QED BY <1>1, <1>2, <2>1 DEF Seeding, SeedCall
<1>5. \A t \in DemoNames : There(t)' \/ Has(p, {"exists", "create"}, t)
  <2> TAKE t \in DemoNames
  <2>1. There(t) \/ Has(q, {"exists", "create"}, t)
    BY <1>2 DEF Provided
  <2>2. CASE There(t)
    BY <1>1, <2>2, GrownKeeps
  <2>3. CASE Has(q, {"exists", "create"}, t)
    <3>1. PICK c \in ToSet(q) : c.c \in {"exists", "create"} /\ c.t = t
      BY <2>3 DEF Has
    <3>2. CASE c \in ToSet(Tail(q))
      BY <1>1, <3>1, <3>2 DEF Has
    <3>3. CASE c = Cur(g)
      <4>1. There(t)' \/ Has(calls, {"exists", "create"}, t)
        BY <3>1, <3>3
      <4>2. Has(calls, {"exists", "create"}, t) => Has(p, {"exists", "create"}, t)
        BY <1>1 DEF Has
      <4> QED BY <4>1, <4>2
    <3> QED BY <1>1, <3>1, <3>2, <3>3
  <2> QED BY <2>1, <2>2, <2>3
<1>6. Provided(g)'
  BY <1>1, <1>5 DEF Provided
<1>7. SeedGate(g)'
  BY <1>1, <1>3, <1>4, <1>6 DEF SeedGate
<1> QED BY <1>7, OutcomeSeeds DEF Seeded

LEMMA HybridQueue ==
  ASSUME TypeInv, SeedInv, Quiet, NEW g \in Gates, Starts(g), todo[g] # <<>>, kind = "hybrid"
  PROVE  /\ List(todo[g]) /\ List(Tail(todo[g])) /\ Cur(g) = todo[g][1]
         /\ ToSet(todo[g]) = {Cur(g)} \cup ToSet(Tail(todo[g]))
         /\ Ordered(todo[g]) /\ Making(todo[g]) /\ Filling(todo[g]) /\ Ordered(Tail(todo[g]))
         /\ \A c \in ToSet(Tail(todo[g])) : c.c # "create" /\ (Cur(g).c = "exists" => c.c = "exists")
         /\ \A c \in ToSet(todo[g]) : SeedCall(kind, c) /\ KindCall(c)
<1>1. List(todo[g])
  BY DEF TypeInv, GateOK, CallsOK
<1>2. /\ List(Tail(todo[g])) /\ Cur(g) = todo[g][1]
      /\ ToSet(todo[g]) = {Cur(g)} \cup ToSet(Tail(todo[g]))
  BY <1>1, ListTail DEF Cur
<1>3. SeedGate(g) /\ Seeding(g)
  BY DEF SeedInv, SeedGate
<1>4. Ordered(todo[g]) /\ Making(todo[g]) /\ Filling(todo[g])
      /\ \A c \in ToSet(todo[g]) : SeedCall(kind, c) /\ KindCall(c)
  BY <1>3 DEF Seeding, SeedGate
<1> QED BY <1>1, <1>2, <1>4, OrderedTail

LEMMA NextQueue == ASSUME NEW q, List(q), q # <<>> PROVE <<>> \o Tail(q) = Tail(q)
<1>1. List(Tail(q))
  BY ListTail
<1> DEFINE u == Tail(q)
           R == ToSet(u)
<1>2. u \in Seq(R)
  BY <1>1 DEF List
<1> HIDE DEF u, R
<1>3. <<>> \o u = u
  BY <1>2
<1> QED BY <1>3 DEF u

(* a call past making the index: none is refused, and what was owed is done or owed *)
LEMMA HybridNext ==
  ASSUME TypeInv, TypeInv', SeedInv, Quiet, NEW g \in Gates, Starts(g), todo[g] # <<>>, kind = "hybrid",
         NEW s, Grown(s), NEW calls, calls = <<>> \/ \E x : calls = <<Call("declIndexCreate", NoTable, x)>>,
         Outcome(g, s, OnTo(g, calls)), Cur(g).c \notin {"exists", "create"},
         \A t : There(t)' => There(t),
         \A t : Cur(g).c = "index" /\ Cur(g).t = t => Docs(t)' # <<>>,
         \A t : Cur(g).c = "putDecl" /\ Cur(g).t = t => Declared(t)'
  PROVE  Seeded'
<1> DEFINE q == todo[g]
           p == todo'[g]
<1>1. List(calls) /\ \A c \in ToSet(calls) : c.c = "declIndexCreate" /\ KindCall(c) /\ SeedCall(kind, c)
  <2>1. CASE calls = <<>>
    BY <2>1, NoList
  <2>2. CASE calls # <<>>
    <3>1. PICK x : calls = <<Call("declIndexCreate", NoTable, x)>>
      BY <2>2
    <3>2. Call("declIndexCreate", NoTable, x).c = "declIndexCreate"
      BY DEF Call
    <3>3. \A c : c.c = "declIndexCreate" => KindCall(c) /\ SeedCall(kind, c)
      BY DEF KindCall, SeedCall, SeedCalls
    <3> QED BY <3>1, <3>2, <3>3, OneList
  <2> QED BY <2>1, <2>2
<1>2. /\ up' = up /\ job' = job /\ kind' = kind /\ Starts(g)' /\ p = calls \o Tail(q)
      /\ coll' = s.coll /\ decls' = s.decls
      /\ List(p) /\ ToSet(p) = ToSet(calls) \cup ToSet(Tail(q))
  BY <1>1, GoesOn
<1>3. /\ List(Tail(q)) /\ Cur(g) = q[1] /\ ToSet(q) = {Cur(g)} \cup ToSet(Tail(q))
      /\ Filling(q) /\ Ordered(Tail(q))
      /\ \A c \in ToSet(Tail(q)) : c.c # "create"
  BY HybridQueue
<1>4. \A c \in ToSet(p) : c.c # "create" /\ (c.c = "index" => c \in ToSet(q))
  BY <1>1, <1>2, <1>3
<1>5. Ordered(p)
  <2>1. Ordered(calls)
    <3>1. CASE calls = <<>>
      BY <3>1 DEF Ordered
    <3>2. CASE calls # <<>>
      <4>1. PICK x : calls = <<Call("declIndexCreate", NoTable, x)>>
        BY <3>2
      <4>2. Len(calls) = 1
        BY <4>1
      <4> QED BY <4>2 DEF Ordered
    <3> QED BY <3>1, <3>2
  <2> QED BY <1>1, <1>2, <1>3, <2>1, OrderedMore
<1>6. p # <<>> => p[1] \in ToSet(p)
  <2>1. p # <<>> => Len(p) \in Nat /\ Len(p) # 0
    BY <1>2, ListElems
  <2>2. p # <<>> => 1 \in 1..Len(p)
    BY <2>1
  <2> QED BY <1>2, <2>2, ListElems
<1>7. p # <<>> => Making(p)
  BY <1>4, <1>6 DEF Making
<1>8. Filling(q)'
  <2>1. \A c \in ToSet(q) : c.c = "index" => There(c.t) /\ Fits(coll[c.t].fields, c.x)
    BY <1>3 DEF Filling
  <2>2. \A c \in ToSet(q) : c.c = "index" => There(c.t)' /\ Fits(coll'[c.t].fields, c.x)
    BY <1>2, <2>1, GrownKeeps
  <2>3. \A c \in ToSet(p) : c.c = "index" => There(c.t)' /\ Fits(coll'[c.t].fields, c.x)
    BY <1>4, <2>2
  <2> QED BY <2>3 DEF Filling
<1>9. ASSUME NEW c \in {"index", "putDecl"}, NEW t, Owes(g, c, t)
      PROVE  Owes(g, c, t)' \/ (Cur(g).c = c /\ Cur(g).t = t)
  <2>1. PICK e \in ToSet(q) : e.c = c /\ e.t = t
    BY <1>9 DEF Owes, Has
  <2>2. CASE e = Cur(g)
    BY <2>1, <2>2
  <2>3. CASE e \in ToSet(Tail(q))
    <3>1. e \in ToSet(p) /\ p # <<>>
      BY <1>2, <2>3, NoList
    <3>2. Head(p) = p[1]
      BY <1>2, <3>1, ListTail
    <3>3. Head(p).c # "create"
      BY <1>4, <1>6, <3>1, <3>2
    <3>4. Has(p, {c}, t)
      BY <2>1, <3>1 DEF Has
    <3> QED BY <1>2, <3>3, <3>4 DEF Owes, Cur
  <2> QED BY <1>3, <2>1, <2>2, <2>3
<1>10. Honest(g)
  <2>1. \A t : Owes(g, "index", t) => Docs(t)' # <<>> \/ Owes(g, "index", t)'
    BY <1>9
  <2>2. \A t : Owes(g, "putDecl", t) => Declared(t)' \/ Owes(g, "putDecl", t)'
    BY <1>9
  <2> QED BY <2>1, <2>2 DEF Honest
<1> QED BY <1>1, <1>5, <1>7, <1>8, <1>10, HybridGoes

LEMMA HybridDecls ==
  ASSUME TypeInv, TypeInv', SeedInv, Quiet, Quiet', NEW g \in Gates, Starts(g), kind = "hybrid",
         DeclIndexExists(g) \/ DeclIndexCreate(g) \/ PutDecl(g)
  PROVE  Seeded'
<1>1. Seeded /\ SeedStore /\ Grown(Now)
  BY GrownNow DEF SeedInv, Seeded
<1>2. CASE DeclIndexExists(g)
  <2> DEFINE one == <<Call("declIndexCreate", NoTable, Empty)>>
             calls == IF declIndex THEN <<>> ELSE one
  <2>1. Does(g, "declIndexExists") /\ Perform(g, FALSE, Now, OnTo(g, calls), OnTo(g, one))
    <3>1. OnTo(g, calls) = IF declIndex THEN OnTo(g, <<>>) ELSE OnTo(g, one)
      OBVIOUS
    <3> HIDE DEF calls, one
    <3>2. Does(g, "declIndexExists")
          /\ Perform(g, FALSE, Now, IF declIndex THEN OnTo(g, <<>>) ELSE OnTo(g, one), OnTo(g, one))
      BY <1>2 DEF DeclIndexExists, Reads, one
    <3> QED BY <3>1, <3>2
  <2>2. todo[g] # <<>> /\ Cur(g).c = "declIndexExists"
    BY <2>1, CurOK
  <2>3. calls = <<>> \/ \E x : calls = <<Call("declIndexCreate", NoTable, x)>>
    OBVIOUS
  <2> HIDE DEF calls, one
  <2>4. Outcome(g, Now, OnTo(g, calls))
    BY <2>1, QuietOutcomes
  <2>5. \A t : There(t)' => There(t)
    BY <2>4, NowIs
  <2> QED BY <1>1, <2>2, <2>3, <2>4, <2>5, HybridNext
<1>3. CASE DeclIndexCreate(g)
  <2>1. Does(g, "declIndexCreate") /\ Perform(g, FALSE, SetDecls(decls), OnTo(g, <<>>), Fail)
    BY <1>3 DEF DeclIndexCreate
  <2>2. todo[g] # <<>> /\ Cur(g).c = "declIndexCreate" /\ Grown(SetDecls(decls))
    BY <1>1, <2>1, CurOK, NoList, AddDeclsGrown
  <2>3. Outcome(g, SetDecls(decls), OnTo(g, <<>>))
    BY <2>1, QuietOutcomes
  <2>4. \A t : There(t)' => There(t)
    BY <2>3, SetDeclsIs
  <2> QED BY <1>1, <2>2, <2>3, <2>4, HybridNext
<1>4. CASE PutDecl(g)
  <2> DEFINE d == Cur(g).x
             ds == IF Declared(d.table) THEN ReplaceAt(decls, Min(At(d.table)), d) ELSE Append(decls, d)
  <2>1. Does(g, "putDecl") /\ Perform(g, FALSE, SetDecls(ds), OnTo(g, <<>>), Fail)
    BY <1>4 DEF PutDecl
  <2>2. todo[g] # <<>> /\ Cur(g).c = "putDecl" /\ d.table = Cur(g).t
    BY <1>1, <2>1, CurKind DEF SeedCall
  <2>3. Grown(SetDecls(ds))
    BY <1>1, PutDeclGrown
  <2>4. d \in ToSet(ds)
    <3>1. List(decls)
      BY DEF TypeInv, StoreOK, Now, DeclsOK
    <3>2. CASE Declared(d.table)
      <4>1. Min(At(d.table)) \in 1..Len(decls) /\ decls[Min(At(d.table))].table = d.table
        BY <3>2, FirstDecl
      <4>2. d \in ToSet(ReplaceAt(decls, Min(At(d.table)), d))
        BY <3>1, <4>1, ReplacedTables
      <4> QED BY <3>2, <4>2
    <3>3. CASE ~Declared(d.table)
      BY <3>1, <3>3, ListAppend
    <3> QED BY <3>2, <3>3
  <2> HIDE DEF ds
  <2>5. Outcome(g, SetDecls(ds), OnTo(g, <<>>))
    BY <2>1, QuietOutcomes
  <2>6. decls' = ds /\ \A t : There(t)' => There(t)
    BY <2>5, SetDeclsIs
  <2>7. \A t : Cur(g).t = t => Declared(t)'
    <3>1. List(decls')
      BY DEF TypeInv, StoreOK, Now, DeclsOK
    <3>2. \A t : Declared(t)' <=> \E e \in ToSet(decls') : e.table = t
      BY <3>1, ListElems DEF Declared, At
    <3> QED BY <2>2, <2>4, <2>6, <3>2
  <2> QED BY <2>2, <2>3, <2>5, <2>6, <2>7, HybridNext
<1> QED BY <1>2, <1>3, <1>4

LEMMA HybridIndex ==
  ASSUME TypeInv, TypeInv', SeedInv, Quiet, Quiet', NEW g \in Gates, Starts(g), kind = "hybrid", IndexDoc(g)
  PROVE  Seeded'
<1> DEFINE u == Cur(g).t
           x == Cur(g).x
           bad == Unfit(u, x)
           new == IF bad THEN Now ELSE SetColl(u, Stored(Holder(u), x))
<1>1. Seeded /\ SeedStore
  BY DEF SeedInv, Seeded
<1>2. Does(g, "index") /\ Perform(g, bad, new, OnTo(g, <<>>), Fail)
  BY DEF IndexDoc
<1>3. todo[g] # <<>> /\ Cur(g).c = "index"
  BY <1>2, CurOK
<1>4. There(u) /\ Fits(coll[u].fields, x)
  BY <1>3, HybridQueue DEF Filling
<1>5. ~bad
  BY <1>1, <1>4, HolderList DEF Unfit, Fits
<1>6. Grown(new)
  BY <1>1, IndexGrown
<1>7. Outcome(g, SetColl(u, Stored(Holder(u), x)), OnTo(g, <<>>)) /\ Grown(SetColl(u, Stored(Holder(u), x)))
  <2>1. new = SetColl(u, Stored(Holder(u), x))
    BY <1>5
  <2>2. bad \in BOOLEAN
    BY DEF Unfit
  <2> HIDE DEF bad, new
  <2>3. Outcome(g, new, OnTo(g, <<>>))
    BY <1>2, <1>5, <2>2, QuietOutcomes
  <2> QED BY <1>6, <2>1, <2>3
<1>8. Stored(Holder(u), x).docs # <<>>
  BY <1>1, HolderList, StoredGrows
<1>9. (\A t : There(t)' => There(t)) /\ \A t : u = t => Docs(t)' # <<>>
  BY <1>4, <1>7, <1>8, SetCollIs
<1> QED BY <1>3, <1>7, <1>9, HybridNext

LEMMA HybridCreate ==
  ASSUME TypeInv, TypeInv', SeedInv, Quiet, Quiet', NEW g \in Gates, Starts(g), kind = "hybrid", CreateColl(g)
  PROVE  Seeded'
<1> DEFINE u == Cur(g).t
           x == Cur(g).x
           q == todo[g]
           p == todo'[g]
           bad == There(u)
           new == IF There(u) THEN Now ELSE SetColl(u, NewColl(x))
<1>1. Seeded /\ SeedStore
  BY DEF SeedInv, Seeded
<1>2. Does(g, "create") /\ Perform(g, bad, new, OnTo(g, <<>>), Fail)
  BY DEF CreateColl
<1>3. q # <<>> /\ Cur(g).c = "create"
  BY <1>2, CurOK
<1>4. Grown(new)
  BY <1>1, CreateGrown
<1>5. (~bad /\ Outcome(g, new, OnTo(g, <<>>))) \/ (bad /\ Outcome(g, new, Fail))
  <2>1. bad \in BOOLEAN
    BY DEF There
  <2> HIDE DEF bad, new
  <2> QED BY <1>2, <2>1, QuietOutcomes
<1>6. CASE bad /\ Outcome(g, new, Fail)
  <2>1. Outcome(g, Now, Fail) /\ Grown(Now)
    BY <1>4, <1>6
  <2>2. decls' = decls /\ \A t : There(t)' => There(t)
    BY <2>1, NowIs
  <2> QED BY <1>3, <2>1, <2>2, StartFails
<1>7. CASE ~bad /\ Outcome(g, new, OnTo(g, <<>>))
  <2>1. Outcome(g, SetColl(u, NewColl(x)), OnTo(g, <<>>)) /\ Grown(SetColl(u, NewColl(x)))
    BY <1>4, <1>7
  <2> PICK t, m : t = u /\ m = x
    OBVIOUS
  <2>2. There(t)' /\ coll'[t] = NewColl(m) /\ decls' = decls /\ \A v : There(v)' <=> There(v) \/ v = t
    <3>1. Outcome(g, SetColl(t, NewColl(m)), OnTo(g, <<>>))
      BY <2>1
    <3> QED BY <3>1, SetCollIs
  <2>3. List(p) /\ p = Tail(q) /\ ToSet(p) = ToSet(Tail(q)) /\ Starts(g)'
    <3>1. p = <<>> \o Tail(q) /\ Starts(g)' /\ List(Tail(q)) /\ List(q)
      BY <1>3, <2>1, NoList, GoesOn
    <3> QED BY <1>3, <3>1, NextQueue
  <2>4. /\ Cur(g) = q[1] /\ ToSet(q) = {Cur(g)} \cup ToSet(Tail(q)) /\ Making(q) /\ Ordered(Tail(q))
        /\ \A c \in ToSet(Tail(q)) : c.c # "create"
    BY <1>3, HybridQueue
  <2>5. /\ Has(q, {"putDecl"}, t) /\ Has(q, {"index"}, t)
        /\ \A c \in ToSet(q) : c.c = "index" => c.t = t /\ Fits(m, c.x)
    BY <1>3, <2>4 DEF Making
  <2>6. Has(p, {"putDecl"}, t) /\ Has(p, {"index"}, t)
    BY <1>3, <2>3, <2>4, <2>5 DEF Has
  <2>7. p # <<>>
    BY <2>6, NoList DEF Has
  <2>8. Head(p) = p[1] /\ p[1] \in ToSet(p)
    BY <2>3, <2>7, ListTail
  <2>9. p[1].c # "create"
    BY <2>3, <2>4, <2>8
  <2>10. Owes(g, "index", t)' /\ Owes(g, "putDecl", t)'
    BY <2>3, <2>6, <2>8, <2>9 DEF Owes, Cur
  <2>11. Making(p)
    BY <2>9 DEF Making
  <2>12. Filling(q)'
    <3>1. NewColl(m).fields = m
      BY DEF NewColl
    <3>2. \A c \in ToSet(p) : c.c = "index" => There(c.t)' /\ Fits(coll'[c.t].fields, c.x)
      BY <2>2, <2>3, <2>4, <2>5, <3>1
    <3> QED BY <3>2 DEF Filling
  <2>13. Honest(g)
    <3>1. \A c, v : ~Owes(g, c, v)
      BY <1>3 DEF Owes
    <3> QED BY <2>2, <2>10, <3>1 DEF Honest
  <2>14. \A v : Cur(g).t = v => There(v)'
    BY <2>2
  <2>15. Ordered(p)
    BY <2>3, <2>4
  <2> HIDE DEF u, x, bad, new
  <2> QED BY <1>3, <2>1, <2>11, <2>12, <2>13, <2>14, <2>15, NoList, HybridGoes
<1> QED BY <1>5, <1>6, <1>7

LEMMA OrderedPlain ==
  ASSUME NEW q, List(q), \A c \in ToSet(q) : c.c \notin {"create", "exists"}
  PROVE  Ordered(q)
BY ListElems DEF Ordered

LEMMA OneOrdered == ASSUME NEW c PROVE Ordered(<<c>>)
<1>1. Len(<<c>>) = 1
  OBVIOUS
<1> QED BY <1>1 DEF Ordered

(* the documents of the demonstration fit the index that is made for them *)
LEMMA DemoFits ==
  ASSUME SeedInv, kind = "hybrid", NEW i \in DOMAIN Demo, NEW d \in ToSet(Demo[i].docs)
  PROVE  Fits([c \in DOMAIN Demo[i].cols |-> KindToES(Demo[i].cols[c])], d)
<1>1. "hybrid" \in KindsServed
  BY DEF SeedInv
<1>2. PICK n \in DOMAIN Demo[i].docs : d = Demo[i].docs[n]
  BY DEF ToSet
<1>3. \A f \in DOMAIN d.at : f \in DOMAIN Demo[i].cols /\ Accepts(KindToES(Demo[i].cols[f]), d.at[f])
  BY <1>1, <1>2, DataAssumption
<1> QED BY <1>3 DEF Fits

LEMMA HybridExists ==
  ASSUME TypeInv, TypeInv', SeedInv, Quiet, Quiet', NEW g \in Gates, Starts(g), kind = "hybrid", ExistsIndex(g)
  PROVE  Seeded'
<1> DEFINE u == Cur(g).t
           x == Cur(g).x
           q == todo[g]
           p == todo'[g]
           on == IF There(u) THEN OnTo(g, <<>>) ELSE Absent(g)
<1>1. Does(g, "exists") /\ Perform(g, FALSE, Now, on, Absent(g))
  BY DEF ExistsIndex, Reads
<1>2. q # <<>> /\ Cur(g).c = "exists"
  BY <1>1, CurOK
<1>3. Grown(Now)
  BY GrownNow DEF SeedInv
<1>4. Outcome(g, Now, on)
  <2> HIDE DEF on
  <2> QED BY <1>1, QuietOutcomes
<1>5. coll' = coll /\ decls' = decls /\ \A t : There(t)' <=> There(t)
  BY <1>4, NowIs
<1>6. /\ List(Tail(q)) /\ Ordered(Tail(q)) /\ ToSet(q) = {Cur(g)} \cup ToSet(Tail(q))
      /\ \A c \in ToSet(Tail(q)) : c.c = "exists"
  BY <1>2, HybridQueue
<1>7. Honest(g)
  <2>1. \A c \in {"index", "putDecl"} : \A t : ~Owes(g, c, t)
    BY <1>2, <1>6 DEF Owes, Has
  <2> QED BY <1>5, <2>1 DEF Honest
<1>8. CASE There(u)
  <2>1. Outcome(g, Now, OnTo(g, <<>>))
    BY <1>4, <1>8
  <2>2. List(p) /\ p = Tail(q)
    <3>1. p = <<>> \o Tail(q) /\ List(q)
      BY <1>2, <2>1, NoList, GoesOn
    <3> QED BY <1>2, <1>6, <3>1, NextQueue
  <2>3. p # <<>> => p[1] \in ToSet(p)
    BY <2>2, ListTail
  <2>4. p # <<>> => Making(p) /\ Filling(q)'
    BY <1>6, <2>2, <2>3 DEF Making, Filling
  <2>5. \A t : u = t => There(t)'
    BY <1>5, <1>8
  <2> HIDE DEF u, on
  <2>6. \A t : Cur(g).t = t => There(t)'
    BY <2>5 DEF u
  <2> QED BY <1>2, <1>3, <1>6, <1>7, <2>1, <2>2, <2>4, <2>6, NoList, HybridGoes
<1>9. CASE ~There(u)
  <2> DEFINE d == Declaration(u, Empty, x.key)
             es == [c \in DOMAIN x.cols |-> KindToES(x.cols[c])]
             c1 == Call("create", u, es)
             c2 == Call("declIndexExists", u, d)
             c3 == Call("putDecl", u, d)
             table == <<c1>> \o <<c2, c3>>
             fill == Calls("index", u, x.docs)
             block == table \o fill
  <2>1. x.name = u /\ List(x.docs) /\ x.docs # <<>>
    BY <1>1, DemoCall
  <2>2. \A y \in ToSet(x.docs) : Fits(es, y)
    <3>1. PICK i \in DOMAIN Demo : x = Demo[i]
      BY <1>1, DemoCall
    <3> HIDE DEF x
    <3> QED BY <3>1, DemoFits
  <2>3. Outcome(g, Now, OnTo(g, block))
    <3>1. CreateTable(u, x.cols, x.key) = table
      BY HybridTable
    <3>2. on = OnTo(g, CreateTable(x.name, x.cols, x.key) \o Calls("index", x.name, x.docs))
      BY <1>9 DEF Absent
    <3> HIDE DEF table, on, x, u
    <3> QED BY <1>4, <2>1, <3>1, <3>2
  <2>4. /\ c1.c = "create" /\ c1.t = u /\ c1.x = es
        /\ c2.c = "declIndexExists" /\ c3.c = "putDecl" /\ c3.t = u /\ c3.x.table = u
    BY DEF Call, Declaration
  <2> HIDE DEF x, es, d
  <2>5. /\ List(fill) /\ ToSet(fill) = {Call("index", u, y) : y \in ToSet(x.docs)}
    BY <2>1, IndexCalls
  <2>6. /\ \A c \in ToSet(fill) : c.c = "index" /\ c.t = u /\ Fits(es, c.x)
        /\ \E c \in ToSet(fill) : c.c = "index" /\ c.t = u
    <3>1. \A y : Call("index", u, y).c = "index" /\ Call("index", u, y).t = u /\ Call("index", u, y).x = y
      BY DEF Call
    <3>2. \E y : y \in ToSet(x.docs)
      <4>1. Len(x.docs) > 0 /\ Len(x.docs) \in Nat
        BY <2>1, ListElems
      <4>2. 1 \in 1..Len(x.docs)
        BY <4>1
      <4> QED BY <2>1, <4>2, ListElems
    <3> HIDE DEF fill
    <3> QED BY <2>2, <2>5, <3>1, <3>2
  <2> HIDE DEF fill, c1, c2, c3, u, on
  <2>7. List(<<c1>>) /\ ToSet(<<c1>>) = {c1} /\ List(<<c2, c3>>) /\ ToSet(<<c2, c3>>) = {c2, c3}
    BY OneList, TwoList
  <2>8. List(table) /\ ToSet(table) = {c1, c2, c3} /\ table[1] = c1 /\ Len(table) = 3 /\ Ordered(table)
    <3>1. Ordered(<<c1>>) /\ Ordered(<<c2, c3>>)
      BY <2>4, <2>7, OneOrdered, OrderedPlain
    <3>2. Ordered(table)
      BY <2>4, <2>7, <3>1, OrderedMore
    <3>3. List(table) /\ ToSet(table) = {c1, c2, c3}
      BY <2>7, ListConcat
    <3>4. table[1] = c1 /\ Len(table) = 3
      OBVIOUS
    <3> QED BY <3>2, <3>3, <3>4
  <2> HIDE DEF table
  <2>9. List(block) /\ ToSet(block) = {c1, c2, c3} \cup ToSet(fill) /\ block[1] = c1 /\ Len(block) >= 3 /\ Ordered(block)
    <3>1. Ordered(fill)
      BY <2>5, <2>6, OrderedPlain
    <3>2. Ordered(block)
      BY <2>4, <2>5, <2>6, <2>8, <3>1, OrderedMore
    <3>3. List(block) /\ ToSet(block) = {c1, c2, c3} \cup ToSet(fill) /\ Len(block) = 3 + Len(fill)
      <4>1. List(block) /\ ToSet(block) = ToSet(table) \cup ToSet(fill) /\ Len(block) = Len(table) + Len(fill)
        BY <2>5, <2>8, ListConcat, Zenon
      <4> QED BY <2>8, <4>1
    <3>4. 1 \in 1..Len(table)
      BY <2>8
    <3>5. block[1] = c1
      BY <2>5, <2>8, <3>4, ListConcat
    <3>6. Len(fill) \in Nat
      BY <2>5, ListElems
    <3> QED BY <3>2, <3>3, <3>5, <3>6
  <2> HIDE DEF block
  <2>10. \A c \in ToSet(block) : KindCall(c) /\ SeedCall(kind, c)
    <3>1. \A c : c.c \in {"create", "declIndexExists", "index"} => KindCall(c) /\ SeedCall(kind, c)
      BY DEF KindCall, SeedCall, SeedCalls
    <3>2. KindCall(c3) /\ SeedCall(kind, c3)
      BY <2>4 DEF KindCall, SeedCall, SeedCalls
    <3> QED BY <2>4, <2>6, <2>9, <3>1, <3>2
  <2>11. p = block \o Tail(q) /\ List(p) /\ ToSet(p) = ToSet(block) \cup ToSet(Tail(q)) /\ p[1] = c1
    <3>1. p = block \o Tail(q) /\ List(p) /\ ToSet(p) = ToSet(block) \cup ToSet(Tail(q))
      BY <1>2, <2>3, <2>9, GoesOn
    <3>2. 1 \in 1..Len(block)
      <4>1. Len(block) \in Nat
        BY <2>9, ListElems
      <4> QED BY <2>9, <4>1
    <3> QED BY <1>6, <2>9, <3>1, <3>2, ListConcat
  <2>12. Ordered(p)
    <3>1. \A c \in ToSet(block) : c.c # "exists"
      BY <2>4, <2>6, <2>9
    <3>2. \A c \in ToSet(Tail(q)) : c.c # "create"
      BY <1>6
    <3> QED BY <1>6, <2>9, <2>11, <3>1, <3>2, OrderedMore
  <2>13. Making(p)
    <3>1. Has(p, {"putDecl"}, u) /\ Has(p, {"index"}, u)
      BY <2>4, <2>6, <2>9, <2>11 DEF Has
    <3>2. \A c \in ToSet(p) : c.c = "index" => c \in ToSet(fill)
      BY <1>6, <2>4, <2>9, <2>11
    <3>3. \A c \in ToSet(p) : c.c = "index" => c.t = u /\ Fits(es, c.x)
      BY <2>6, <3>2
    <3> QED BY <2>4, <2>11, <3>1, <3>3 DEF Making
  <2>14. Filling(q)'
    BY <2>4, <2>11 DEF Filling
  <2>15. Has(block, {"exists", "create"}, u)
    BY <2>4, <2>9 DEF Has
  <2>16. \A t : Cur(g).t = t => Has(block, {"exists", "create"}, t)
    BY <2>15 DEF u
  <2> QED BY <1>2, <1>3, <1>7, <2>3, <2>9, <2>10, <2>12, <2>13, <2>14, <2>16, HybridGoes
<1> QED BY <1>8, <1>9

LEMMA StartingHybrid ==
  ASSUME TypeInv, TypeInv', SeedInv, Quiet, Quiet', NEW g \in Gates, Starts(g), kind = "hybrid", Step(g)
  PROVE  Seeded'
<1>1. Seeded
  BY DEF SeedInv, Seeded
<1>2. ASSUME NEW c, Does(g, c)
      PROVE  c \in {"exists", "create", "declIndexExists", "declIndexCreate", "putDecl", "index"}
  BY <1>1, <1>2, CurKind DEF SeedCall, SeedCalls
<1>3. ExistsIndex(g) \/ CreateColl(g) \/ DeclIndexExists(g) \/ DeclIndexCreate(g) \/ PutDecl(g) \/ IndexDoc(g)
  BY <1>2, StepOf
<1> QED BY <1>3, HybridExists, HybridCreate, HybridDecls, HybridIndex

-----------------------------------------------------------------------------
(* Every step: what fails is counted, and what is quiet was. *)

Counted(g) ==
  /\ kind' = kind /\ demo' = demo /\ crashes' = crashes /\ faults' \in {faults, faults + 1} /\ up[g] # "down"

LEMMA StepCounts ==
  ASSUME NEW g \in Gates, Step(g)
  PROVE  Counted(g)
<1>0. \A bad, new, on, off, c : Does(g, c) /\ (Perform(g, bad, new, on, off) \/ Reads(g, bad, on, off)) => Counted(g)
  <2>1. ASSUME NEW bad, NEW new, NEW on, NEW off, NEW c, Does(g, c), Perform(g, bad, new, on, off) PROVE Counted(g)
    <3>1. kind' = kind /\ demo' = demo /\ crashes' = crashes
      BY <2>1 DEF Perform
    <3>2. faults' \in {faults, faults + 1}
      BY <2>1 DEF Perform
    <3> QED BY <2>1, <3>1, <3>2 DEF Counted, Does
  <2> QED BY <2>1 DEF Reads
<1>1. CreateColl(g) => Counted(g)       BY <1>0 DEF CreateColl
<1>2. PutMapping(g) => Counted(g)       BY <1>0 DEF PutMapping
<1>3. DropColl(g) => Counted(g)         BY <1>0 DEF DropColl
<1>4. DeleteDecl(g) => Counted(g)       BY <1>0 DEF DeleteDecl
<1>5. IndexDoc(g) => Counted(g)         BY <1>0 DEF IndexDoc
<1>6. InsertMany(g) => Counted(g)       BY <1>0 DEF InsertMany
<1>7. UpdateWhere(g) => Counted(g)      BY <1>0 DEF UpdateWhere
<1>8. DeleteWhere(g) => Counted(g)      BY <1>0 DEF DeleteWhere
<1>9. Search(g) => Counted(g)           BY <1>0 DEF Search
<1>10. ReadDecls(g) => Counted(g)       BY <1>0 DEF ReadDecls
<1>11. CountDecls(g) => Counted(g)      BY <1>0 DEF CountDecls
<1>12. ListNames(g) => Counted(g)       BY <1>0 DEF ListNames
<1>13. Mapping(g) => Counted(g)         BY <1>0 DEF Mapping
<1>14. Sample(g) => Counted(g)          BY <1>0 DEF Sample
<1>15. DeclIndexExists(g) => Counted(g) BY <1>0 DEF DeclIndexExists
<1>16. DeclIndexCreate(g) => Counted(g) BY <1>0 DEF DeclIndexCreate
<1>17. PutDecl(g) => Counted(g)         BY <1>0 DEF PutDecl
<1>18. InsertDecl(g) => Counted(g)      BY <1>0 DEF InsertDecl
<1>19. InsertDecls(g) => Counted(g)     BY <1>0 DEF InsertDecls
<1>20. PushCols(g) => Counted(g)        BY <1>0 DEF PushCols
<1>21. GetDecl(g) => Counted(g)         BY <1>0 DEF GetDecl
<1>22. ExistsIndex(g) => Counted(g)     BY <1>0 DEF ExistsIndex
<1>23. Count(g) => Counted(g)           BY <1>0 DEF Count
<1>24. Ensure(g) => Counted(g)          BY <1>0 DEF Ensure
<1> QED BY <1>1, <1>2, <1>3, <1>4, <1>5, <1>6, <1>7, <1>8, <1>9, <1>10, <1>11, <1>12, <1>13, <1>14, <1>15,
           <1>16, <1>17, <1>18, <1>19, <1>20, <1>21, <1>22, <1>23, <1>24 DEF Step

(* SeedInv after a step, from what it must keep while all is quiet *)
LEMMA Quietly ==
  ASSUME SeedInv, kind' = kind, demo' => demo, faults' \in {faults, faults + 1}, crashes' \in {crashes, crashes + 1},
         Quiet /\ Quiet' => Seeded'
  PROVE  SeedInv'
<1>1. Quiet' => Quiet
  BY DEF SeedInv, Quiet
<1>2. kind' \in KindsServed /\ faults' \in Nat /\ crashes' \in Nat
  BY DEF SeedInv
<1> QED BY <1>1, <1>2 DEF SeedInv, Seeded

LEMMA StepSeeds ==
  ASSUME TypeInv, TypeInv', SeedInv, NEW g \in Gates, Step(g)
  PROVE  SeedInv'
<1>1. Counted(g)
  BY StepCounts
<1>2. up[g] = "serving" \/ Starts(g)
  BY <1>1 DEF Counted, TypeInv, GateOK, Starts
<1>3. Quiet /\ Quiet' => Seeded'
  BY <1>2, ServingStep, StartingPlain, StartingHybrid
<1> QED BY <1>1, <1>3, Quietly DEF Counted

-----------------------------------------------------------------------------
(* Jobs, answers, starts and crashes leave the store *)

LEMMA StillSeeds ==
  ASSUME TypeInv, TypeInv', SeedInv, Quiet, NEW g \in Gates, kind' = kind, coll' = coll, decls' = decls,
         \A x \in Gates \ {g} : up'[x] = up[x] /\ job'[x] = job[x] /\ todo'[x] = todo[x],
         \A c, t : ~Owes(g, c, t), SeedGate(g)'
  PROVE  Seeded'
<1>1. Grown(Now)
  BY GrownNow DEF SeedInv
<1>2. coll' = Now.coll /\ decls' = Now.decls
  BY DEF Now
<1>3. Honest(g)
  BY DEF Honest, There
<1>4. SeedStore'
  BY <1>1, <1>2, <1>3, StoreSeeds
<1>5. \A x \in Gates \ {g} : SeedGate(x)'
  BY <1>1, <1>2, OtherSeeds
<1> QED BY <1>4, <1>5 DEF Seeded

(* what a gateway that serves was provided with is there still *)
LEMMA StillProvided ==
  ASSUME NEW g, Provided(g), ~Starts(g) \/ todo[g] = <<>>, kind' = kind, coll' = coll, decls' = decls
  PROVE  Provided(g)'
<1>1. \A t : (There(t)' <=> There(t)) /\ Docs(t)' = Docs(t) /\ (Declared(t)' <=> Declared(t))
  BY DEF There, Docs, Declared, At
<1>2. todo[g] = <<>> => ToSet(todo[g]) = {}
  BY NoList
<1>3. AllDeclared' <=> AllDeclared
  BY <1>1 DEF AllDeclared
<1>4. kind = "hybrid" => \A t \in DemoNames : There(t)
  BY <1>2 DEF Provided, Has
<1>5. kind # "hybrid" => \A t \in DemoNames : Docs(t) # <<>>
  BY <1>2 DEF Provided, Has
<1>6. kind = "declared" => AllDeclared
  BY <1>2 DEF Provided
<1> QED BY <1>1, <1>3, <1>4, <1>5, <1>6 DEF Provided

KindCalls(q) == \A c \in ToSet(q) : KindCall(c)

LEMMA BeginSeeds ==
  ASSUME TypeInv, TypeInv', SeedInv, NEW g \in Gates, NEW do, NEW t, NEW calls, Begin(g, do, t, calls),
         do \notin {"drop", "delete"} => KindCalls(calls)
  PROVE  SeedInv'
<1>1. /\ kind' = kind /\ coll' = coll /\ decls' = decls /\ up' = up /\ faults' = faults /\ crashes' = crashes
      /\ demo' = (demo /\ do \notin {"drop", "delete"}) /\ up[g] = "serving" /\ todo'[g] = calls
      /\ \A x \in Gates \ {g} : job'[x] = job[x] /\ todo'[x] = todo[x]
  BY DEF Begin, store, TypeInv
<1>2. ASSUME Quiet, Quiet' PROVE Seeded'
  <2>1. \A c \in ToSet(calls) : KindCall(c)
    BY <1>1, <1>2 DEF Quiet, KindCalls
  <2>2. ~Starts(g) /\ ~Starts(g)' /\ Provided(g)
    BY <1>1, <1>2 DEF Starts, SeedInv, SeedGate
  <2>3. Provided(g)'
    BY <1>1, <2>2, StillProvided
  <2>4. SeedGate(g)'
    BY <1>1, <2>1, <2>2, <2>3 DEF SeedGate, KindCall
  <2>5. \A c, u : ~Owes(g, c, u)
    BY <2>2 DEF Owes
  <2> QED BY <1>1, <1>2, <2>4, <2>5, StillSeeds
<1> QED BY <1>1, <1>2, Quietly

(* what clients ask for *)
LEMMA KindOf ==
  ASSUME NEW c, c \notin {"drop", "deleteDecl", "deleteWhere", "insertMany"}
  PROVE  \A t, x : KindCall(Call(c, t, x)) /\ KindCalls(<<Call(c, t, x)>>)
<1>1. \A t, x : KindCall(Call(c, t, x))
  BY DEF KindCall, Call
<1> QED BY <1>1, OneList DEF KindCalls

LEMMA KindNone == KindCalls(<<>>)
BY NoList DEF KindCalls

LEMMA KindTwo ==
  ASSUME NEW a, NEW b, KindCall(a), KindCall(b)
  PROVE  KindCalls(<<a, b>>)
BY TwoList DEF KindCalls

LEMMA KindThree ==
  ASSUME NEW a, NEW b, NEW c, KindCall(a), KindCall(b), KindCall(c)
  PROVE  KindCalls(<<a, b, c>>)
<1> DEFINE s == <<a, b, c>>
<1>1. DOMAIN s = 1..3 /\ s[1] = a /\ s[2] = b /\ s[3] = c
  OBVIOUS
<1> HIDE DEF s
<1>2. \A x \in ToSet(s) : x = a \/ x = b \/ x = c
  BY <1>1 DEF ToSet
<1> QED BY <1>2 DEF KindCalls, s

LEMMA BeginReadSeeds ==
  ASSUME TypeInv, TypeInv', SeedInv, NEW g \in Gates, BeginRead(g)
  PROVE  SeedInv'
<1>1. KindCalls(Describe)
  <2>1. KindCalls(<<Call("readDecls", NoTable, Empty)>>) /\ KindCalls(<<Call("listNames", NoTable, Empty)>>)
    BY KindOf
  <2> QED BY <2>1, KindNone DEF Describe
<1>2. \A t : KindCalls(Scan(t))
  <2>1. \A t : /\ KindCall(Call("getDecl", t, Empty)) /\ KindCall(Call("mapping", t, Empty))
               /\ KindCall(Call("search", t, Empty)) /\ KindCall(Call("sample", t, Empty))
               /\ KindCalls(<<Call("search", t, Empty)>>)
    BY KindOf
  <2> QED BY <2>1, KindTwo, KindThree DEF Scan
<1> QED BY <1>1, <1>2, BeginSeeds DEF BeginRead

LEMMA BeginWriteSeeds ==
  ASSUME TypeInv, TypeInv', SeedInv, NEW g \in Gates, BeginWrite(g)
  PROVE  SeedInv'
<1>1. ASSUME NEW t, NEW i \in DOMAIN RowLists PROVE KindCalls(Insert(t, RowLists[i]))
  <2>1. List(RowLists[i])
    BY DataAssumption
  <2>2. KindCalls(Calls("index", t, RowLists[i]))
    <3>1. ToSet(Calls("index", t, RowLists[i])) = {Call("index", t, x) : x \in ToSet(RowLists[i])}
      BY <2>1, IndexCalls
    <3>2. \A x : KindCall(Call("index", t, x))
      BY DEF KindCall, Call
    <3> QED BY <3>1, <3>2 DEF KindCalls
  <2>3. KindCall(Call("insertMany", t, RowLists[i]))
    BY <2>1 DEF KindCall, Call
  <2> QED BY <2>2, <2>3, OneList DEF Insert, KindCalls
<1>2. \A t, x : KindCalls(<<Call("updateWhere", t, x)>>)
  BY KindOf
<1> QED BY <1>1, <1>2, BeginSeeds DEF BeginWrite

LEMMA BeginDDLSeeds ==
  ASSUME TypeInv, TypeInv', SeedInv, NEW g \in Gates, BeginDDL(g)
  PROVE  SeedInv'
<1>1. \A t, cols, key : KindCalls(CreateTable(t, cols, key))
  BY TableCalls DEF KindCalls, KindCall
<1>2. \A t, cols : KindCalls(AlterTable(t, cols))
  <2>1. \A t, x : KindCalls(<<Call("putMapping", t, x)>>) /\ KindCalls(<<Call("pushCols", t, x)>>)
    BY KindOf
  <2> QED BY <2>1, KindNone DEF AlterTable
<1> QED BY <1>1, <1>2, BeginSeeds DEF BeginDDL

LEMMA RestSeeds ==
  ASSUME TypeInv, TypeInv', SeedInv, NEW g \in Gates, Answer(g) \/ Ready(g) \/ Crash(g)
  PROVE  SeedInv'
<1>1. /\ kind' = kind /\ coll' = coll /\ decls' = decls /\ demo' = demo /\ faults' = faults
      /\ crashes' \in {crashes, crashes + 1}
      /\ \A x \in Gates \ {g} : job'[x] = job[x] /\ up'[x] = up[x] /\ todo'[x] = todo[x]
  BY DEF Answer, Ready, Crash, Rest, store, bounds, TypeInv
<1>2. ASSUME Quiet, Quiet' PROVE Seeded'
  <2>1. Answer(g) \/ Ready(g)
    BY <1>2 DEF Crash, Quiet
  <2>2. todo[g] = <<>> /\ todo'[g] = <<>> /\ up[g] # "down" /\ up'[g] = "serving"
    BY <2>1 DEF Answer, Ready, Done, Starts, TypeInv
  <2>3. Provided(g)
    BY <1>2, <2>2 DEF SeedInv, SeedGate
  <2>4. Provided(g)'
    BY <1>1, <2>2, <2>3, StillProvided
  <2>5. \A c \in ToSet(todo'[g]) : KindCall(c)'
    BY <2>2, NoList
  <2>6. SeedGate(g)'
    BY <2>2, <2>4, <2>5 DEF SeedGate, Starts
  <2>7. \A c, u : ~Owes(g, c, u)
    BY <2>2, NoList DEF Owes, Has
  <2> QED BY <1>1, <1>2, <2>6, <2>7, StillSeeds
<1> QED BY <1>1, <1>2, Quietly

(* the calls a start begins with *)
LEMMA SeedAsks ==
  ASSUME NEW c
  PROVE  LET s == [i \in DOMAIN Demo |-> Call(c, Demo[i].name, Demo[i])] IN
         /\ List(s) /\ \A e \in ToSet(s) : e.c = c
         /\ \A t \in DemoNames : Has(s, {c}, t)
<1> DEFINE s == [i \in DOMAIN Demo |-> Call(c, Demo[i].name, Demo[i])]
<1>1. /\ DOMAIN s = 1..Len(Demo) /\ s = [i \in 1..Len(Demo) |-> s[i]]
      /\ \A i \in 1..Len(Demo) : s[i].c = c /\ s[i].t = Demo[i].name
  BY DemoList DEF Call
<1> HIDE DEF s
<1>2. List(s) /\ \A e \in ToSet(s) : e.c = c
  BY <1>1, DemoList, FnList DEF ToSet
<1>3. \A i \in 1..Len(Demo) : s[i] \in ToSet(s)
  BY <1>1 DEF ToSet
<1>4. \A t \in DemoNames : Has(s, {c}, t)
  BY <1>1, <1>3, DemoList DEF DemoNames, Has
<1> QED BY <1>2, <1>4 DEF s

LEMMA SeedCallsMade ==
  /\ List(Seed)
  /\ kind = "hybrid" => /\ \A e \in ToSet(Seed) : e.c = "exists"
                        /\ \A t \in DemoNames : Has(Seed, {"exists"}, t)
  /\ kind # "hybrid" => /\ \A e \in ToSet(Seed) : e.c = "count" \/ (kind = "declared" /\ e.c = "countDecls")
                        /\ \A t \in DemoNames : Has(Seed, {"count"}, t)
  /\ kind = "declared" => \E e \in ToSet(Seed) : e.c = "countDecls"
<1> DEFINE asks(c) == [i \in DOMAIN Demo |-> Call(c, Demo[i].name, Demo[i])]
           one == <<Call("countDecls", NoTable, Empty)>>
           call == Call("countDecls", NoTable, Empty)
<1>1. \A c : List(asks(c)) /\ (\A e \in ToSet(asks(c)) : e.c = c) /\ \A t \in DemoNames : Has(asks(c), {c}, t)
  BY SeedAsks
<1>2. call.c = "countDecls"
  BY DEF Call
<1>3. List(one) /\ ToSet(one) = {call} /\ List(<<>>) /\ ToSet(<<>>) = {}
  BY OneList, NoList
<1>4. Seed = IF kind = "hybrid" THEN asks("exists") ELSE asks("count") \o (IF kind = "declared" THEN one ELSE <<>>)
  BY DEF Seed
<1> HIDE DEF asks, one, call
<1>5. CASE kind = "hybrid"
  BY <1>1, <1>4, <1>5
<1>6. CASE kind # "hybrid"
  <2> DEFINE more == IF kind = "declared" THEN one ELSE <<>>
  <2>1. List(more) /\ ToSet(more) = IF kind = "declared" THEN {call} ELSE {}
    BY <1>3
  <2>2. Seed = asks("count") \o more
    BY <1>4, <1>6
  <2> HIDE DEF more
  <2>3. List(Seed) /\ ToSet(Seed) = ToSet(asks("count")) \cup ToSet(more)
    BY <1>1, <2>1, <2>2, ListConcat
  <2>4. \A t \in DemoNames : Has(Seed, {"count"}, t)
    BY <1>1, <2>3 DEF Has
  <2> QED BY <1>1, <1>2, <1>6, <2>1, <2>3, <2>4
<1> QED BY <1>5, <1>6

LEMMA StartSeeds ==
  ASSUME TypeInv, TypeInv', SeedInv, NEW g \in Gates, Start(g)
  PROVE  SeedInv'
<1> PICK do \in {"seed", "ensure"} :
      /\ job' = [job EXCEPT ![g] = [do |-> do, t |-> NoTable]]
      /\ todo' = [todo EXCEPT ![g] = IF do = "seed" THEN Seed ELSE EnsureCatalog]
      /\ demo' = (demo /\ do = "seed")
  BY DEF Start
<1>1. /\ kind' = kind /\ coll' = coll /\ decls' = decls /\ faults' = faults /\ crashes' = crashes
      /\ up[g] = "down" /\ up'[g] = "starting"
      /\ job'[g] = [do |-> do, t |-> NoTable] /\ todo'[g] = IF do = "seed" THEN Seed ELSE EnsureCatalog
      /\ \A x \in Gates \ {g} : job'[x] = job[x] /\ up'[x] = up[x] /\ todo'[x] = todo[x]
  BY DEF Start, store, bounds, TypeInv
<1>2. ASSUME Quiet, Quiet' PROVE Seeded'
  <2>1. job'[g].do = "seed" /\ todo'[g] = Seed
    <3>1. demo'
      BY <1>2 DEF Quiet
    <3>2. do = "seed"
      BY <3>1
    <3> QED BY <1>1, <3>2
  <2>2. \A c \in ToSet(Seed) : KindCall(c) /\ SeedCall(kind, c)
    <3>1. kind \in Kinds
      BY DEF TypeInv
    <3>2. \A c \in ToSet(Seed) : /\ kind = "hybrid" => c.c = "exists"
                                 /\ kind # "hybrid" => c.c = "count" \/ (kind = "declared" /\ c.c = "countDecls")
      BY SeedCallsMade
    <3>3. ASSUME NEW c \in ToSet(Seed) PROVE KindCall(c)
      BY <3>2 DEF KindCall
    <3>4. ASSUME NEW c \in ToSet(Seed) PROVE SeedCall(kind, c)
      BY <3>1, <3>2 DEF SeedCall, SeedCalls, Kinds
    <3> QED BY <3>3, <3>4
  <2>3. ASSUME kind = "hybrid"
        PROVE  /\ Ordered(Seed) /\ (Seed # <<>> => Making(Seed) /\ \A c \in ToSet(Seed) : c.c # "index")
    <3>1. \A n \in 1..Len(Seed) : Seed[n].c = "exists"
      BY <2>3, SeedCallsMade, ListElems
    <3>2. Seed # <<>> => Seed[1].c = "exists"
      BY <2>3, SeedCallsMade, ListElems
    <3> QED BY <2>3, <3>1, <3>2, SeedCallsMade DEF Ordered, Making
  <2>4. Seeding(g)'
    <3>1. ASSUME kind = "hybrid"
          PROVE  (Ordered(todo[g]) /\ (todo[g] # <<>> => Making(todo[g]) /\ Filling(todo[g])))'
      <4>1. Ordered(todo'[g]) /\ (todo'[g] # <<>> => Making(todo'[g]))
        BY <2>1, <2>3, <3>1
      <4>2. todo'[g] # <<>> => \A c \in ToSet(todo'[g]) : c.c # "index"
        BY <2>1, <2>3, <3>1
      <4>3. todo'[g] # <<>> => Filling(todo[g])'
        BY <4>2 DEF Filling
      <4> QED BY <4>1, <4>3
    <3>2. \A c \in ToSet(todo'[g]) : SeedCall(kind, c)
      BY <2>1, <2>2
    <3> QED BY <1>1, <2>1, <3>1, <3>2 DEF Seeding, SeedCall
  <2>5. Provided(g)'
    <3>1. Starts(g)'
      BY <1>1 DEF Starts
    <3>2. kind = "hybrid" => \A t \in DemoNames : Has(todo'[g], {"exists", "create"}, t)
      BY <2>1, SeedCallsMade DEF Has
    <3>3. kind # "hybrid" => \A t \in DemoNames : Has(todo'[g], {"count", "index", "insertMany"}, t)
      BY <2>1, SeedCallsMade DEF Has
    <3>4. kind = "declared" => \E c \in ToSet(todo'[g]) : c.c \in {"countDecls", "insertDecls"}
      BY <2>1, SeedCallsMade
    <3> QED BY <1>1, <3>1, <3>2, <3>3, <3>4 DEF Provided
  <2>6. SeedGate(g)'
    BY <2>1, <2>2, <2>4, <2>5 DEF SeedGate, KindCall
  <2>7. \A c, u : ~Owes(g, c, u)
    BY <1>1 DEF Owes, Starts
  <2> QED BY <1>1, <1>2, <2>6, <2>7, StillSeeds
<1> QED BY <1>1, <1>2, Quietly

LEMMA SeedNext ==
  ASSUME TypeInv, SeedInv, [Next]_vars
  PROVE  SeedInv'
<1>1. TypeInv'
  BY NextTypes
<1>2. ASSUME UNCHANGED vars PROVE SeedInv'
  <2>1. UNCHANGED <<kind, coll, decls, up, job, todo, demo, faults, crashes>>
    BY <1>2 DEF vars, store, history, bounds
  <2>2. ASSUME Quiet, Quiet' PROVE Seeded'
    <3>1. Grown(Now) /\ coll' = Now.coll /\ decls' = Now.decls
      BY <2>1, <2>2, GrownNow DEF SeedInv, Now
    <3>2. \A x \in Gates : SeedGate(x)'
      BY <1>1, <2>1, <2>2, <3>1, OtherSeeds
    <3>3. PICK g \in Gates : TRUE
      BY GatewaysAssumption
    <3>4. Honest(g)
      BY <2>1 DEF Honest, There, Docs, Owes, Starts, Cur, Declared, At
    <3>5. SeedStore'
      BY <1>1, <2>1, <2>2, <3>1, <3>4, StoreSeeds
    <3> QED BY <3>2, <3>5 DEF Seeded
  <2> QED BY <2>1, <2>2, Quietly
<1> QED BY <1>1, <1>2, StepSeeds, BeginReadSeeds, BeginWriteSeeds, BeginDDLSeeds, RestSeeds, StartSeeds DEF Next, Stop

LEMMA SeedInit == Init => SeedInv
<1> SUFFICES ASSUME Init PROVE SeedInv
  OBVIOUS
<1>1. kind \in KindsServed /\ faults = 0 /\ crashes = 0 /\ coll = Foreign /\ decls = <<>>
      /\ \A g \in Gates : up[g] = "down" /\ todo[g] = <<>>
  BY DEF Init
<1>2. SeedStore
  <2>1. \A t \in DOMAIN coll : List(coll[t].docs)
    BY <1>1, DataAssumption
  <2>2. \A t : There(t) => t \in DOMAIN Foreign
    BY <1>1 DEF There
  <2> QED BY <1>1, <2>1, <2>2 DEF SeedStore
<1>3. \A g \in Gates : SeedGate(g)
  BY <1>1, NoList DEF SeedGate, Starts
<1> QED BY <1>1, <1>2, <1>3 DEF SeedInv

LEMMA SeedInvariant == Spec => []SeedInv
<1>1. TypeInv /\ SeedInv /\ [Next]_vars => SeedInv'
  BY SeedNext
<1> QED BY <1>1, SeedInit, TypesInvariant, PTL DEF Spec

(* Gateways that start together, however many, over any demonstration and  *)
(* any store, and whatever clients ask for meanwhile, leave it whole if    *)
(* none of them dies or misses an answer and nothing is dropped or         *)
(* deleted: when the last of them serves, each table of the demonstration  *)
(* is there and has documents, and is declared unless it was there before, *)
(* whichever of them filled it (seed, seedIfEmpty, seedCatalog).           *)
THEOREM SeededCorrect == Spec => []SeededTogether
<1>1. TypeInv /\ SeedInv => SeededTogether
  <2> SUFFICES ASSUME TypeInv, SeedInv, demo, faults = 0, crashes = 0, \A g \in Gates : up[g] = "serving"
               PROVE  \A t \in DemoNames :
                        /\ Docs(t) # <<>> \/ (kind = "hybrid" /\ t \in DOMAIN Foreign)
                        /\ kind = "declared" \/ (kind = "hybrid" /\ t \notin DOMAIN Foreign) => Declared(t)
    BY DEF SeededTogether, DemoNames
  <2>1. PICK g \in Gates : TRUE
    BY GatewaysAssumption
  <2>2. SeedStore /\ Provided(g) /\ ~Starts(g)
    BY DEF SeedInv, Quiet, SeedGate, Starts
  <2>3. \A x \in Gates : \A c, t : ~Owes(x, c, t)
    BY DEF Owes, Starts
  <2>4. kind = "hybrid" => \A t \in DemoNames \ DOMAIN Foreign : Docs(t) # <<>> /\ Declared(t)
    BY <2>2, <2>3 DEF SeedStore, Provided
  <2>5. kind # "hybrid" => \A t \in DemoNames : Docs(t) # <<>>
    BY <2>2 DEF Provided
  <2>6. kind = "declared" => \A t \in DemoNames : Declared(t)
    BY <2>2 DEF Provided, AllDeclared
  <2> QED BY <2>4, <2>5, <2>6
<1> QED BY <1>1, SeedInvariant, TypesInvariant, PTL
=============================================================================
