------------------------------ MODULE JoinProofs ------------------------------
(***************************************************************************)
(* joinQuery pushes conjuncts and keys into its scans, and still answers   *)
(* what the WHERE leaves of the whole join: PushdownSound, for all plans,  *)
(* contents and backends.  The names it qualifies are those of one source, *)
(* and a caller that leaves sees one more source scanned at most.          *)
(***************************************************************************)
EXTENDS Joins, TLAPS

(* Every pushed conjunct of the first k sources holds of their rows in r *)
Good(p, cs, k, r) == \A j \in Places(p) : j <= k => Passes(p, cs, j, r[j])

(* Two sets of rows differ only in rows the WHERE rejects *)
Agree(p, cs, k, rs, ws) ==
  \A r \in JoinedRow(p) : Good(p, cs, k, r) => (r \in rs <=> r \in ws)

(* The ON holds of a left row and a right one *)
On(p, i, r, t, sub) == Holds(p.src[i].on, RowEnv(p, i, [r EXCEPT ![i] = t]), sub)

(* A right row without a left one *)
Alone(p, i, t) == [j \in Places(p) |-> IF j = i THEN t ELSE NullRow]

(* What is known of a query *)
LEMMA QueryTypes ==
  ASSUME NEW p \in Queries
  PROVE  /\ p.src \in Seq(Source) /\ Len(p.src) \in Nat /\ 1 \in Places(p)
         /\ Places(p) = DOMAIN p.src
         /\ \A i \in Places(p) : p.src[i] \in Source
         /\ p.where \subseteq Conjunct
         /\ \A i, j \in Places(p) : p.src[i].alias = p.src[j].alias => i = j
BY JoinsAssumption DEF Places

(* A conjunct a NULL-extended source was given rejects its NULL row *)
LEMMA NullsRejected ==
  ASSUME NEW p, NEW cs, NEW i, SuppliesNulls(p, i), Passes(p, cs, i, NullRow)
  PROVE  Honoured(p, cs, i) = {}
<1>1. ScanEnv(NullRow) = NullEnv
  <2>1. \A f \in Ref : NullRow[f.c] = Null
    BY DEF NullRow, Ref
  <2> QED BY <2>1 DEF ScanEnv, NullEnv
<1>2. SUFFICES ASSUME NEW c \in Honoured(p, cs, i) PROVE FALSE
  OBVIOUS
<1>3. RejectsNulls(c)
  BY <1>2 DEF Honoured, Pushed
<1>4. Truth(c, NullEnv, NoSub) = "T"
  BY <1>1, <1>2 DEF Passes, Holds
<1> QED BY <1>3, <1>4 DEF RejectsNulls

(* The scan of a side returns at least the rows that pass and meet a key *)
LEMMA ScanKeeps ==
  ASSUME NEW p, NEW cs, NEW i, NEW rs, NEW all, NEW ts \in SUBSET all,
         Scan(p, cs, i, rs, all, ts)
  PROVE  \A t \in all : Passes(p, cs, i, t) /\ SemiJoin(p, i, rs, t) => t \in ts
BY DEF Scan

(* What exec.Join returns, pair by pair *)
LEMMA JoinRows ==
  ASSUME NEW p \in Queries, NEW i \in Places(p), i > 1, NEW sub,
         NEW ls, Upto(p, i - 1, ls), NEW us, NEW r
  PROVE  r \in Join(p, i, ls, us, Matched(p, i, ls, us, sub)) <=>
           \/ \E l \in ls, t \in us : On(p, i, l, t, sub) /\ r = [l EXCEPT ![i] = t]
           \/ p.src[i].type \in {"left", "full"} /\ r \in ls /\ \A t \in us : ~On(p, i, r, t, sub)
           \/ /\ p.src[i].type \in {"right", "full"}
              /\ \E t \in us : r = Alone(p, i, t) /\ \A l \in ls : ~On(p, i, l, t, sub)
<1> DEFINE found == Matched(p, i, ls, us, sub)
<1>0. i \in Int /\ i > i - 1
  BY DEF Places
<1>1. \A m : m \in found <=> \E l \in ls, t \in us : On(p, i, l, t, sub) /\ m = [l EXCEPT ![i] = t]
  <2>1. \A m : m \in Pairs(i, ls, us) <=> \E l \in ls, t \in us : m = [l EXCEPT ![i] = t]
    BY DEF Pairs
  <2>2. \A m : m \in found <=> m \in Pairs(i, ls, us) /\ Holds(p.src[i].on, RowEnv(p, i, m), sub)
    BY DEF Matched
  <2> HIDE DEF found
  <2>3. ASSUME NEW m \in found
        PROVE  \E l \in ls, t \in us : On(p, i, l, t, sub) /\ m = [l EXCEPT ![i] = t]
    <3>1. PICK l \in ls, t \in us : m = [l EXCEPT ![i] = t]
      BY <2>1, <2>2, <2>3
    <3> QED BY <2>2, <2>3, <3>1 DEF On
  <2>4. ASSUME NEW m, NEW l \in ls, NEW t \in us, On(p, i, l, t, sub), m = [l EXCEPT ![i] = t]
        PROVE  m \in found
    BY <2>1, <2>2, <2>4 DEF On
  <2> QED BY <2>3, <2>4
<1>2. \A t : \A l \in ls : [l EXCEPT ![i] = t][i] = t /\ [[l EXCEPT ![i] = t] EXCEPT ![i] = NullRow] = l
  <2> TAKE t
  <2> TAKE l \in ls
  <2>1. l \in JoinedRow(p) /\ l[i] = NullRow
    BY <1>0 DEF Upto
  <2> DEFINE m == [l EXCEPT ![i] = t]
  <2>2. m = [j \in Places(p) |-> IF j = i THEN t ELSE l[j]]
    BY <2>1 DEF JoinedRow
  <2>3. m[i] = t
    BY <2>2
  <2>4. [m EXCEPT ![i] = NullRow] = [j \in Places(p) |-> IF j = i THEN NullRow ELSE m[j]]
    BY <2>2
  <2>5. [m EXCEPT ![i] = NullRow] = [j \in Places(p) |-> l[j]]
    BY <2>1, <2>2, <2>4
  <2>6. l = [j \in Places(p) |-> l[j]]
    BY <2>1 DEF JoinedRow
  <2> QED BY <2>3, <2>5, <2>6
<1> HIDE DEF found
<1>3. r \in LeftOver(i, ls, found) <=> r \in ls /\ \A t \in us : ~On(p, i, r, t, sub)
  BY <1>1, <1>2 DEF LeftOver
<1>4. \A t \in us : (\A m \in found : m[i] # t) <=> \A l \in ls : ~On(p, i, l, t, sub)
  <2> TAKE t \in us
  <2>1. ASSUME NEW l \in ls, On(p, i, l, t, sub)  PROVE  \E m \in found : m[i] = t
    <3>1. [l EXCEPT ![i] = t] \in found
      BY <1>1, <2>1
    <3> QED BY <1>2, <3>1
  <2>2. ASSUME NEW m \in found, m[i] = t  PROVE  \E l \in ls : On(p, i, l, t, sub)
    <3>1. PICK l \in ls, u \in us : On(p, i, l, u, sub) /\ m = [l EXCEPT ![i] = u]
      BY <1>1
    <3>2. u = t
      BY <1>2, <2>2, <3>1
    <3> QED BY <3>1, <3>2
  <2> QED BY <2>1, <2>2
<1>5. r \in RightOver(p, i, us, found) <=> \E t \in us : r = Alone(p, i, t) /\ \A l \in ls : ~On(p, i, l, t, sub)
  BY <1>4 DEF RightOver, Alone
<1> QED BY <1>1, <1>3, <1>5 DEF Join, found

(* One join keeps the agreement, if the key filter drops no row that joins *)
LEMMA JoinAgrees ==
  ASSUME NEW p \in Queries, NEW cs, NEW i \in Places(p), i > 1, NEW sub,
         NEW rs, NEW ws, Upto(p, i - 1, rs), Upto(p, i - 1, ws),
         NEW all \in SUBSET Row, NEW ts \in SUBSET all,
         \A t \in all : Passes(p, cs, i, t) /\ SemiJoin(p, i, rs, t) => t \in ts,
         Agree(p, cs, i - 1, rs, ws),
         \A l \in rs, t \in all : On(p, i, l, t, sub) => SemiJoin(p, i, rs, t)
  PROVE  Agree(p, cs, i, Join(p, i, rs, ts, Matched(p, i, rs, ts, sub)), Join(p, i, ws, all, Matched(p, i, ws, all, sub)))
<1> DEFINE Keeps == p.src[i].type \in {"left", "full"}
           Fills == p.src[i].type \in {"right", "full"}
           kept  == Join(p, i, rs, ts, Matched(p, i, rs, ts, sub))
           full  == Join(p, i, ws, all, Matched(p, i, ws, all, sub))
<1>0. \A j \in Places(p) : j \in Int
  BY DEF Places
<1>2. \A r : /\ r \in kept <=>
                  \/ \E l \in rs, t \in ts : On(p, i, l, t, sub) /\ r = [l EXCEPT ![i] = t]
                  \/ Keeps /\ r \in rs /\ \A t \in ts : ~On(p, i, r, t, sub)
                  \/ Fills /\ \E t \in ts : r = Alone(p, i, t) /\ \A l \in rs : ~On(p, i, l, t, sub)
             /\ r \in full <=>
                  \/ \E l \in ws, t \in all : On(p, i, l, t, sub) /\ r = [l EXCEPT ![i] = t]
                  \/ Keeps /\ r \in ws /\ \A t \in all : ~On(p, i, r, t, sub)
                  \/ Fills /\ \E t \in all : r = Alone(p, i, t) /\ \A l \in ws : ~On(p, i, l, t, sub)
  BY JoinRows
<1> HIDE DEF kept, full
<1>3. SUFFICES ASSUME NEW r \in JoinedRow(p), Good(p, cs, i, r)
               PROVE  r \in kept <=> r \in full
  BY DEF Agree, kept, full
<1>4. ASSUME NEW l \in JoinedRow(p), NEW t \in Row, r = [l EXCEPT ![i] = t]
      PROVE  Passes(p, cs, i, t) /\ (l \in rs <=> l \in ws)
  <2>1. r[i] = t /\ \A j \in Places(p) : j <= i - 1 => r[j] = l[j]
    BY <1>0, <1>4 DEF JoinedRow
  <2>2. Good(p, cs, i - 1, l)
    BY <1>0, <1>3, <2>1 DEF Good
  <2> QED BY <1>0, <1>3, <2>1, <2>2 DEF Good, Agree
<1>5. ASSUME Keeps, r \in rs \/ r \in ws
      PROVE  /\ \A t \in all : Passes(p, cs, i, t)
             /\ r \in rs /\ r \in ws
  <2>1. r[i] = NullRow
    BY <1>0, <1>5 DEF Upto
  <2>2. Honoured(p, cs, i) = {}
    BY <1>0, <1>3, <1>5, <2>1, NullsRejected DEF Good, SuppliesNulls
  <2>3. Good(p, cs, i - 1, r)
    BY <1>0, <1>3 DEF Good
  <2> QED BY <1>5, <2>2, <2>3 DEF Agree, Passes, Holds
<1>6. ASSUME Fills, NEW t \in Row, r = Alone(p, i, t)
      PROVE  rs = ws /\ Passes(p, cs, i, t)
  <2>1. r[i] = t /\ \A j \in Places(p) : j < i => r[j] = NullRow
    BY <1>0, <1>6 DEF Alone
  <2>2. \A j \in Places(p) : j < i => Honoured(p, cs, j) = {}
    BY <1>0, <1>3, <1>6, <2>1, NullsRejected DEF Good, SuppliesNulls
  <2>3. \A s : Good(p, cs, i - 1, s)
    BY <1>0, <2>2 DEF Good, Passes, Holds
  <2>4. rs = ws
    BY <2>3 DEF Agree, Upto
  <2> QED BY <1>0, <1>3, <2>1, <2>4 DEF Good
<1>7. ASSUME r \in kept PROVE r \in full
  <2>1. CASE \E l \in rs, t \in ts : On(p, i, l, t, sub) /\ r = [l EXCEPT ![i] = t]
    BY <1>2, <1>4, <2>1 DEF Upto
  <2>2. CASE Keeps /\ r \in rs /\ \A t \in ts : ~On(p, i, r, t, sub)
    BY <1>2, <1>5, <2>2
  <2>3. CASE Fills /\ \E t \in ts : r = Alone(p, i, t) /\ \A l \in rs : ~On(p, i, l, t, sub)
    BY <1>2, <1>6, <2>3
  <2> QED BY <1>2, <1>7, <2>1, <2>2, <2>3
<1>8. ASSUME r \in full PROVE r \in kept
  <2>1. CASE \E l \in ws, t \in all : On(p, i, l, t, sub) /\ r = [l EXCEPT ![i] = t]
    BY <1>2, <1>4, <2>1 DEF Upto
  <2>2. CASE Keeps /\ r \in ws /\ \A t \in all : ~On(p, i, r, t, sub)
    BY <1>2, <1>5, <2>2
  <2>3. CASE Fills /\ \E t \in all : r = Alone(p, i, t) /\ \A l \in ws : ~On(p, i, l, t, sub)
    <3>1. PICK t \in all : r = Alone(p, i, t) /\ \A l \in ws : ~On(p, i, l, t, sub)
      BY <2>3
    <3>2. SemiJoin(p, i, rs, t)
      BY <2>3 DEF SemiJoin
    <3> QED BY <1>2, <1>6, <2>3, <3>1, <3>2
  <2> QED BY <1>2, <1>8, <2>1, <2>2, <2>3
<1> QED BY <1>7, <1>8

(* A clear reference to an alias is to that source *)
LEMMA ClearAlias ==
  ASSUME NEW p \in Queries, NEW k \in 0..Len(p.src), NEW f \in Ref, ClearRef(p, k, f),
         NEW i \in Places(p), p.src[i].alias = f.q
  PROVE  i <= k /\ HasCol(p, i, f.c) /\ Candidates(p, k, f) = {i} /\ Place(p, k, f) = i
<1>1. f.q # NoName
  BY QueryTypes, JoinsAssumption DEF Source
<1>2. PICK j \in 1..k : p.src[j].alias = f.q /\ HasCol(p, j, f.c)
  BY <1>1 DEF ClearRef
<1>3. 1..k \subseteq Places(p)
  BY QueryTypes DEF Places
<1>4. \A j2 \in 1..k : p.src[j2].alias = f.q => j2 = i
  BY <1>3, QueryTypes
<1>5. j = i
  BY <1>2, <1>4
<1>6. Candidates(p, k, f) = {i}
  BY <1>2, <1>4, <1>5 DEF Candidates
<1> QED BY <1>2, <1>5, <1>6 DEF Place

(* A clear reference that source i qualifies is to source i *)
LEMMA ClearPlace ==
  ASSUME NEW p \in Queries, Clear(p), NEW k \in 0..Len(p.src), NEW f \in Ref, ClearRef(p, k, f),
         NEW i \in Places(p), IsQualified(p, i, f)
  PROVE  p.src[i].alias = f.q /\ Resolves(p, k, f) /\ Place(p, k, f) = i
<1>1. PICK j \in 1..k : p.src[j].alias = f.q /\ HasCol(p, j, f.c)
  BY DEF ClearRef, IsQualified
<1>2. j \in Places(p)
  BY QueryTypes DEF Places
<1>3. i = j
  BY <1>1, <1>2, QueryTypes DEF IsQualified, Clear
<1> QED BY <1>1, <1>3, ClearAlias DEF ClearRef

(* The columns of a predicate of some conjunct are references of the conjuncts *)
LEMMA ColsAreRefs ==
  ASSUME NEW cs \in SUBSET Conjunct, NEW c \in cs, NEW pr \in c.any
  PROVE  /\ pr \in Pred /\ pr.a \in Ref /\ pr.b \in Ref
         /\ PredCols(pr) \subseteq RefsOf(cs)
<1>1. c \in Conjunct /\ pr \in Pred
  BY DEF Conjunct
<1> QED BY <1>1 DEF Pred, PredCols, RefsOf

(* A row the ON joins meets the keys of the semi-join *)
LEMMA SemiJoinKeeps ==
  ASSUME NEW p \in Queries, Clear(p), NEW i \in Places(p),
         NEW rs \in SUBSET JoinedRow(p), NEW l \in rs, NEW t \in Row, NEW sub, On(p, i, l, t, sub)
  PROVE  SemiJoin(p, i, rs, t)
<1>1. SUFFICES ASSUME NEW k \in JoinKeys(p, i), KeyValues(p, i, k.left, rs) # {}
               PROVE  t[k.right.c] \in KeyValues(p, i, k.left, rs)
  BY DEF SemiJoin
<1> DEFINE r   == [l EXCEPT ![i] = t]
           env == RowEnv(p, i, r)
<1>i. i \in 0..Len(p.src) /\ i \in Int /\ p.src[i] \in Source
  BY QueryTypes DEF Places
<1>2. PICK c \in p.src[i].on, pr \in UNION {d.any : d \in p.src[i].on} :
         /\ p.src[i].on = {c} /\ c.any = {pr} /\ ~c.neg /\ pr.op = "eq"
         /\ \/ k.left = pr.a /\ k.right = pr.b
            \/ k.left = pr.b /\ k.right = pr.a
  BY <1>1 DEF JoinKeys
<1>3. IsQualified(p, i, k.right) /\ ~IsQualified(p, i, k.left)
  BY <1>1 DEF JoinKeys
<1>4. /\ k.left \in Ref /\ k.right \in Ref
      /\ ClearRef(p, i, k.left) /\ ClearRef(p, i, k.right)
  <2>1. p.src[i].on \in SUBSET Conjunct
    BY <1>i DEF Source
  <2>2. pr.a \in Ref /\ pr.b \in Ref /\ PredCols(pr) \subseteq RefsOf(p.src[i].on)
    BY <2>1, <1>2, ColsAreRefs
  <2>3. {pr.a, pr.b} \subseteq RefsOf(p.src[i].on)
    BY <2>2, <1>2 DEF PredCols
  <2> QED BY <1>2, <2>2, <2>3 DEF Clear
<1>5. env[k.left] = env[k.right] /\ env[k.left] # Null
  <2>1. Truth(c, env, sub) = "T"
    BY <1>2 DEF On, Holds
  <2>2. PredTruth(pr, env, sub) = Cmp(env[pr.a], env[pr.b])
    BY <1>2 DEF PredTruth
  <2>3. {PredTruth(x, env, sub) : x \in c.any} = {PredTruth(pr, env, sub)}
    BY <1>2
  <2>4. PredTruth(pr, env, sub) = "T"
    BY <2>1, <2>3, <1>2 DEF Truth, SomeTruth
  <2>5. env[pr.a] = env[pr.b] /\ env[pr.a] # Null
    BY <2>2, <2>4 DEF Cmp
  <2> QED BY <1>2, <2>5
<1>6. env[k.right] = t[k.right.c]
  <2>1. Resolves(p, i, k.right) /\ Place(p, i, k.right) = i
    BY <1>3, <1>4, <1>i, ClearPlace
  <2>2. r[i] = t
    BY DEF JoinedRow
  <2> QED BY <1>4, <2>1, <2>2 DEF RowEnv
<1>7. \E j \in KeyPlaces(p, i, k.left) : env[k.left] = l[j][k.left.c]
  <2> DEFINE f == k.left
             exact == {j \in 1..(i-1) : p.src[j].alias = f.q /\ HasCol(p, j, f.c)}
             named == {j \in 1..(i-1) : HasCol(p, j, f.c)}
  <2>0. Resolves(p, i, f) /\ 1..(i-1) \subseteq Places(p) /\ 1..i \subseteq Places(p)
    BY <1>4, <1>i DEF ClearRef, Places
  <2>1. CASE f.q # NoName
    <3>1. PICK j \in 1..i : p.src[j].alias = f.q /\ HasCol(p, j, f.c)
      BY <2>1, <1>4 DEF ClearRef
    <3>2. j # i
      BY <2>1, <3>1, <1>3 DEF IsQualified
    <3>3. j \in 1..(i-1) /\ j \in Places(p)
      BY <3>2, <1>i, <2>0
    <3>4. Place(p, i, f) = j
      BY <3>1, <3>3, <1>4, <1>i, ClearAlias
    <3>5. j \in KeyPlaces(p, i, f)
      BY <3>1, <3>3 DEF KeyPlaces
    <3>6. env[f] = r[j][f.c]
      BY <3>4, <2>0, <1>4 DEF RowEnv
    <3>7. r[j] = l[j]
      BY <3>2, <3>3 DEF JoinedRow
    <3> QED BY <3>5, <3>6, <3>7
  <2>2. CASE f.q = NoName
    <3>1. \A j \in Places(p) : p.src[j].alias # f.q
      BY <2>2, QueryTypes, JoinsAssumption DEF Source
    <3>2. Candidates(p, i, f) = {j \in 1..i : HasCol(p, j, f.c)}
      BY <3>1, <2>0 DEF Candidates
    <3>3. PICK j \in 1..i : Candidates(p, i, f) = {j}
      BY <2>0 DEF Resolves
    <3>4. KeyPlaces(p, i, f) = {x \in named : \A y \in named : x <= y}
      BY <3>1, <2>0 DEF KeyPlaces
    <3>5. named \subseteq {j}
      BY <3>2, <3>3, <1>i
    <3>6. KeyPlaces(p, i, f) # {}
      BY <1>1 DEF KeyValues
    <3>7. named = {j} /\ j \in 1..(i-1)
      BY <3>4, <3>5, <3>6
    <3>8. KeyPlaces(p, i, f) = {j}
      BY <3>4, <3>7
    <3>9. Place(p, i, f) = j
      BY <3>3 DEF Place
    <3>10. env[f] = r[j][f.c] /\ r[j] = l[j]
      BY <3>9, <3>7, <2>0, <1>4, <1>i DEF RowEnv, JoinedRow
    <3> QED BY <3>8, <3>10
  <2> QED BY <2>1, <2>2
<1> QED BY <1>5, <1>6, <1>7 DEF KeyValues

(* Pushed conjuncts are conjuncts of the WHERE, so rows it keeps pass them *)
LEMMA HoldsPasses ==
  ASSUME NEW p \in Queries, Clear(p), NEW cs \in SUBSET Conjunct,
         \A f \in RefsOf(cs) : ClearRef(p, Len(p.src), f),
         (\E j \in Places(p) : p.src[j].rel \in Local) =>
            \A c \in cs : \A pr \in c.any : pr.op # "in",
         NEW r \in JoinedRow(p), NEW sub, Holds(cs, RowEnv(p, Len(p.src), r), sub),
         NEW i \in Places(p)
  PROVE  Passes(p, cs, i, r[i])
<1> DEFINE n == Len(p.src)
           env == RowEnv(p, n, r)
<1>1. SUFFICES ASSUME NEW c \in Honoured(p, cs, i) PROVE Truth(c, ScanEnv(r[i]), NoSub) = "T"
  BY DEF Passes, Holds
<1>2. /\ c \in cs /\ \A f \in ExprCols(c) : IsQualified(p, i, f)
      /\ \A pr \in c.any : pr.op # "in"
  BY <1>1 DEF Honoured, Pushed, SingleTableWhere
<1>3. ASSUME NEW pr \in c.any PROVE PredTruth(pr, ScanEnv(r[i]), NoSub) = PredTruth(pr, env, sub)
  <2>1. pr \in Pred /\ pr.a \in Ref /\ pr.b \in Ref /\ PredCols(pr) \subseteq RefsOf(cs)
    BY <1>2, <1>3, ColsAreRefs
  <2>2. PredCols(pr) \subseteq ExprCols(c)
    BY <1>2, <1>3 DEF PredCols, ExprCols
  <2>3. ASSUME NEW f \in PredCols(pr) PROVE f \in Ref /\ env[f] = ScanEnv(r[i])[f]
    <3>1. f \in Ref /\ IsQualified(p, i, f) /\ ClearRef(p, n, f)
      BY <1>2, <2>1, <2>2, <2>3 DEF PredCols
    <3>2. Resolves(p, n, f) /\ Place(p, n, f) = i
      BY <3>1, ClearPlace, QueryTypes
    <3> QED BY <3>1, <3>2 DEF RowEnv, ScanEnv
  <2>4. env[pr.a] = ScanEnv(r[i])[pr.a] /\ (pr.op = "eq" => env[pr.b] = ScanEnv(r[i])[pr.b])
    BY <2>3 DEF PredCols
  <2>5. pr.op \in {"eqv", "eq", "null", "notnull"}
    BY <2>1, <1>2, <1>3 DEF Pred
  <2> QED BY <2>4, <2>5 DEF PredTruth
<1>4. {PredTruth(pr, ScanEnv(r[i]), NoSub) : pr \in c.any} = {PredTruth(pr, env, sub) : pr \in c.any}
  BY <1>3
<1>5. Truth(c, env, sub) = "T"
  BY <1>2 DEF Holds
<1> QED BY <1>4, <1>5 DEF Truth

(* A clear bare name is given to the source it would be resolved to *)
LEMMA QualifySame ==
  ASSUME NEW p \in Queries, NEW f \in Ref, ClearRef(p, Len(p.src), f)
  PROVE  LET g == QualifyRef(p, f) IN
         /\ g \in Ref /\ g.c = f.c /\ ClearRef(p, Len(p.src), g)
         /\ Candidates(p, Len(p.src), g) = Candidates(p, Len(p.src), f)
<1> DEFINE n == Len(p.src)
           g == QualifyRef(p, f)
<1>1. CASE f.q = NoName /\ \E i \in Places(p) : Owners(p, f.c) = {i}
  <2>1. PICK i \in Places(p) : Owners(p, f.c) = {i}
    BY <1>1
  <2>2. g = [f EXCEPT !.q = p.src[i].alias]
    BY <1>1, <2>1 DEF QualifyRef
  <2>3. p.src[i].alias \in Name
    BY QueryTypes DEF Source
  <2>4. g \in Ref /\ g.c = f.c /\ g.q = p.src[i].alias
    BY <2>2, <2>3 DEF Ref
  <2>5. HasCol(p, i, f.c) /\ 1..n = Places(p)
    BY <2>1 DEF Owners, Places
  <2>6. \A j \in Places(p) : p.src[j].alias = g.q => j = i
    BY <2>4, QueryTypes
  <2>7. Candidates(p, n, g) = {i}
    BY <2>4, <2>5, <2>6 DEF Candidates
  <2>8. \A j \in Places(p) : p.src[j].alias # f.q
    BY <1>1, QueryTypes, JoinsAssumption DEF Source
  <2>9. Candidates(p, n, f) = {j \in 1..n : HasCol(p, j, f.c)}
    BY <2>5, <2>8 DEF Candidates
  <2>10. PICK j \in 1..n : Candidates(p, n, f) = {j}
    BY DEF ClearRef, Resolves
  <2>11. Candidates(p, n, f) = {i}
    BY <2>5, <2>9, <2>10
  <2> QED BY <2>4, <2>5, <2>7, <2>11 DEF ClearRef, Resolves
<1>2. CASE ~(f.q = NoName /\ \E i \in Places(p) : Owners(p, f.c) = {i})
  <2>1. g = f
    BY <1>2 DEF QualifyRef
  <2> QED BY <2>1
<1> QED BY <1>1, <1>2

(* The WHERE as qualifyBareWhere leaves it: conjuncts of clear references that *)
(* hold of the same rows as before                                            *)
LEMMA QualifiedWhere ==
  ASSUME NEW p \in Queries, Clear(p)
  PROVE  LET cs == {QualifyConj(p, c) : c \in p.where} IN
         /\ cs \subseteq Conjunct
         /\ \A f \in RefsOf(cs) : ClearRef(p, Len(p.src), f)
         /\ (\A c \in p.where : \A pr \in c.any : pr.op # "in") =>
              \A c \in cs : \A pr \in c.any : pr.op # "in"
         /\ \A r, sub : Holds(cs, RowEnv(p, Len(p.src), r), sub)
                     <=> Holds(p.where, RowEnv(p, Len(p.src), r), sub)
<1> DEFINE n  == Len(p.src)
           cs == {QualifyConj(p, c) : c \in p.where}
<1>1. \A c \in p.where : c \in Conjunct /\ QualifyConj(p, c) = [c EXCEPT !.any = {QualifyPred(p, pr) : pr \in c.any}]
  BY QueryTypes DEF QualifyConj
<1>2. ASSUME NEW c \in p.where, NEW pr \in c.any
      PROVE  /\ QualifyPred(p, pr) \in Pred /\ QualifyPred(p, pr).op = pr.op
             /\ \A f \in PredCols(QualifyPred(p, pr)) : ClearRef(p, n, f)
             /\ \A r, sub : PredTruth(QualifyPred(p, pr), RowEnv(p, n, r), sub) = PredTruth(pr, RowEnv(p, n, r), sub)
  <2>1. pr \in Pred /\ pr.a \in Ref /\ pr.b \in Ref /\ PredCols(pr) \subseteq RefsOf(p.where)
    BY <1>2, ColsAreRefs, QueryTypes
  <2>2. ClearRef(p, n, pr.a) /\ (pr.op \in {"eq", "in"} => ClearRef(p, n, pr.b))
    BY <2>1 DEF PredCols, Clear
  <2> DEFINE g == QualifyRef(p, pr.a)
  <2>3. /\ g \in Ref /\ g.c = pr.a.c /\ ClearRef(p, n, g)
        /\ Candidates(p, n, g) = Candidates(p, n, pr.a)
    BY <2>1, <2>2, QualifySame
  <2> HIDE DEF g
  <2>4. /\ QualifyPred(p, pr) \in Pred /\ QualifyPred(p, pr).op = pr.op /\ QualifyPred(p, pr).a = g
        /\ QualifyPred(p, pr).b = pr.b /\ QualifyPred(p, pr).v = pr.v
    BY <2>1, <2>3 DEF Pred, QualifyPred, g
  <2>5. \A f \in PredCols(QualifyPred(p, pr)) : ClearRef(p, n, f)
    BY <2>2, <2>3, <2>4 DEF PredCols
  <2>6. ASSUME NEW r PROVE RowEnv(p, n, r)[g] = RowEnv(p, n, r)[pr.a]
    BY <2>1, <2>3 DEF RowEnv, Resolves, Place
  <2>7. ASSUME NEW r, NEW sub PROVE PredTruth(QualifyPred(p, pr), RowEnv(p, n, r), sub) = PredTruth(pr, RowEnv(p, n, r), sub)
    BY <2>4, <2>6 DEF PredTruth
  <2> QED BY <2>4, <2>5, <2>7
<1>3. ASSUME NEW c \in p.where
      PROVE  /\ QualifyConj(p, c).neg = c.neg
             /\ QualifyConj(p, c).any = {QualifyPred(p, pr) : pr \in c.any}
             /\ QualifyConj(p, c).any \subseteq Pred
             /\ QualifyConj(p, c) \in Conjunct
  <2>1. c \in [neg : BOOLEAN, any : SUBSET Pred]
    BY <1>1 DEF Conjunct
  <2>2. QualifyConj(p, c) = [neg |-> c.neg, any |-> {QualifyPred(p, pr) : pr \in c.any}]
    BY <1>1, <2>1
  <2>3. \A pr \in c.any : QualifyPred(p, pr) \in Pred
    BY <1>2
  <2> QED BY <2>1, <2>2, <2>3 DEF Conjunct
<1>4. \A f \in RefsOf(cs) : ClearRef(p, n, f)
  <2>1. SUFFICES ASSUME NEW f \in RefsOf(cs) PROVE ClearRef(p, n, f)
    OBVIOUS
  <2>2. PICK c \in p.where : \E x \in QualifyConj(p, c).any : f \in PredCols(x)
    BY <2>1 DEF RefsOf
  <2>3. PICK pr \in c.any : f \in PredCols(QualifyPred(p, pr))
    BY <2>2, <1>3
  <2> QED BY <2>3, <1>2
<1>5. ASSUME NEW r, NEW sub, NEW c \in p.where
      PROVE  Truth(QualifyConj(p, c), RowEnv(p, n, r), sub) = Truth(c, RowEnv(p, n, r), sub)
  <2> DEFINE env == RowEnv(p, n, r)
  <2>1. \A pr \in c.any : PredTruth(QualifyPred(p, pr), env, sub) = PredTruth(pr, env, sub)
    BY <1>2
  <2>2. QualifyConj(p, c).any = {QualifyPred(p, pr) : pr \in c.any} /\ QualifyConj(p, c).neg = c.neg
    BY <1>3
  <2>3. {PredTruth(x, env, sub) : x \in {QualifyPred(p, pr) : pr \in c.any}}
        = {PredTruth(QualifyPred(p, pr), env, sub) : pr \in c.any}
    OBVIOUS
  <2>4. {PredTruth(QualifyPred(p, pr), env, sub) : pr \in c.any} = {PredTruth(pr, env, sub) : pr \in c.any}
    BY <2>1
  <2>5. {PredTruth(x, env, sub) : x \in QualifyConj(p, c).any} = {PredTruth(pr, env, sub) : pr \in c.any}
    BY <2>2, <2>3, <2>4, Zenon
  <2> QED BY <2>2, <2>5 DEF Truth
<1>6. \A r, sub : Holds(cs, RowEnv(p, n, r), sub) <=> Holds(p.where, RowEnv(p, n, r), sub)
  BY <1>5 DEF Holds
<1>7. ASSUME \A c \in p.where : \A pr \in c.any : pr.op # "in", NEW c \in p.where, NEW x \in QualifyConj(p, c).any
      PROVE  x.op # "in"
  <2>1. PICK pr \in c.any : x = QualifyPred(p, pr)
    BY <1>3, <1>7
  <2>2. QualifyPred(p, pr).op = pr.op
    BY <1>2
  <2> QED BY <2>1, <2>2, <1>7
<1>8. cs \subseteq Conjunct
  BY <1>3
<1> QED BY <1>4, <1>6, <1>7, <1>8

-----------------------------------------------------------------------------
(* The WHERE is the query's, or what qualifyBareWhere made of it *)
WhereInv ==
  /\ where \in {q.where, {QualifyConj(q, c) : c \in q.where}}
  /\ pc = "qualify" => where = q.where

(* How far the joins are *)
AtInv ==
  /\ q \in Queries
  /\ pc \in {"qualify", "from"} => at = 0 /\ rows = {} /\ whole = {}
  /\ pc \in {"loop", "join", "on", "where"} => at \in Places(q)
  /\ pc \in {"join", "on"} => at + 1 \in Places(q)
  /\ pc = "where" => at = Len(q.src)

(* Where a condition is evaluated, the rows it is TRUE of are those found so *)
(* far and some of those still to be evaluated; and the scan that went       *)
(* before missed no row that passes and meets a key                          *)
Candidate == IF pc = "on" THEN Pairs(at + 1, rows, got) ELSE rows

EvalInv ==
  /\ pc \in {"on", "where"} =>
       /\ todo \subseteq Candidate /\ hits \subseteq Candidate
       /\ SubSteady => hits = {r \in Candidate \ todo : Holds(Condition, RowEnv(q, Span, r), SubFn(q, store))}
  /\ pc = "on" => \A t \in met : Passes(q, where, at + 1, t) /\ SemiJoin(q, at + 1, rows, t) => t \in got

(* The rows joined so far differ from the whole join in rows only that a *)
(* conjunct already pushed rejects                                       *)
Sound == Clear(q) /\ NoLocalSub(q) /\ SubSteady
AgreeInv == Sound /\ pc \in {"loop", "join", "on", "where"} => Agree(q, where, at, rows, whole)

JoinInv == TypeOK /\ WhereInv /\ AtInv /\ EvalInv /\ AgreeInv /\ PushdownSound

(* What TypeOK says of one state *)
LEMMA Types ==
  TypeOK => /\ at \in 0..Len(q.src) /\ where \subseteq Conjunct
            /\ Upto(q, at, rows) /\ Upto(q, at, whole) /\ Upto(q, at, result)
            /\ Upto(q, at + 1, todo) /\ Upto(q, at + 1, hits)
            /\ met \subseteq Row /\ got \subseteq met
            /\ store \in [Rel -> SUBSET Row]
            /\ ctx \in [live : BOOLEAN, left : 0..Len(q.src), late : Nat]
            /\ writes \in Seq(Rel \ Local) /\ Len(writes) <= MaxWrites
            /\ pc \in {"qualify", "from", "loop", "join", "on", "where", "done", "error", "cancelled"}
BY DEF TypeOK

(* Pairs of rows of the first i - 1 sources and of the i-th *)
LEMMA PairTypes ==
  ASSUME NEW p \in Queries, NEW i \in Places(p), i > 1, NEW rs, Upto(p, i - 1, rs), NEW ts \in SUBSET Row
  PROVE  Upto(p, i, Pairs(i, rs, ts))
<1>0. \A j \in Places(p) : j \in Int
  BY DEF Places
<1> QED BY <1>0 DEF Pairs, Upto, JoinedRow

(* A join of rows of the first i - 1 sources has rows of the first i *)
LEMMA JoinTypes ==
  ASSUME NEW p \in Queries, NEW i \in Places(p), i > 1, NEW rs, Upto(p, i - 1, rs), NEW ts \in SUBSET Row,
         NEW found \in SUBSET Pairs(i, rs, ts)
  PROVE  Upto(p, i, Join(p, i, rs, ts, found))
<1>0. NullRow \in Row /\ \A j \in Places(p) : j \in Int
  BY DEF NullRow, Row, Datum, Places
<1>1. Upto(p, i, found)
  BY PairTypes DEF Upto
<1>2. Upto(p, i, LeftOver(i, rs, found))
  BY <1>0 DEF LeftOver, Upto
<1>3. Upto(p, i, RightOver(p, i, ts, found))
  BY <1>0 DEF RightOver, Upto, JoinedRow
<1> QED BY <1>1, <1>2, <1>3 DEF Join, Upto

(* So has the FROM alone *)
LEMMA FirstTypes ==
  ASSUME q \in Queries, NEW ts \in SUBSET Row
  PROVE  Upto(q, 1, First(ts))
<1>0. NullRow \in Row /\ \A j \in Places(q) : j \in Int
  BY DEF NullRow, Row, Datum, Places
<1> QED BY <1>0 DEF First, Upto, JoinedRow

(* Every step keeps joinQuery's state well typed *)
LEMMA JoinTypeStep == TypeOK /\ AtInv /\ WhereInv /\ EvalInv /\ [Next]_vars => TypeOK'
<1> SUFFICES ASSUME TypeOK, AtInv, WhereInv, EvalInv, [Next]_vars PROVE TypeOK'
  OBVIOUS
<1>t. /\ at \in 0..Len(q.src) /\ where \subseteq Conjunct
      /\ Upto(q, at, rows) /\ Upto(q, at, whole) /\ Upto(q, at, result)
      /\ Upto(q, at + 1, todo) /\ Upto(q, at + 1, hits)
      /\ met \subseteq Row /\ got \subseteq met
      /\ store \in [Rel -> SUBSET Row]
      /\ ctx \in [live : BOOLEAN, left : 0..Len(q.src), late : Nat]
      /\ writes \in Seq(Rel \ Local) /\ Len(writes) <= MaxWrites
      /\ pc \in {"qualify", "from", "loop", "join", "on", "where", "done", "error", "cancelled"}
  BY Types
<1>q. q \in Queries /\ Len(q.src) \in Nat /\ 1 \in Places(q) /\ \A i \in Places(q) : q.src[i] \in Source
  BY QueryTypes DEF AtInv
<1>r. \A i \in Places(q) : store[q.src[i].rel] \in SUBSET Row
  BY <1>t, <1>q DEF Source
<1>b. Began => ctx' \in [live : BOOLEAN, left : 0..Len(q.src), late : Nat]
  BY <1>t DEF Began
<1>m. \A rs : \A k \in Nat : Upto(q, k, rs) => Upto(q, k + 1, rs)
  BY <1>q DEF Upto, Places
<1>e. \A k \in Nat : Upto(q, k, {})
  BY DEF Upto
<1>n. at \in Nat /\ MaxWrites \in Nat
  BY <1>t, <1>q, JoinsAssumption
<1>1. CASE Qualify
  <2>1. where' \subseteq Conjunct
    <3>1. \A f \in Ref : QualifyRef(q, f) \in Ref
      <4> SUFFICES ASSUME NEW f \in Ref PROVE QualifyRef(q, f) \in Ref
        OBVIOUS
      <4>1. \A i \in Places(q) : [f EXCEPT !.q = q.src[i].alias] \in Ref
        BY <1>q DEF Ref, Source
      <4>2. CASE f.q = NoName /\ \E i \in Places(q) : Owners(q, f.c) = {i}
        <5>1. (CHOOSE i \in Places(q) : i \in Owners(q, f.c)) \in Places(q)
          BY <4>2
        <5> QED BY <4>1, <4>2, <5>1 DEF QualifyRef
      <4> QED BY <4>2 DEF QualifyRef
    <3>2. \A pr \in Pred : QualifyPred(q, pr) \in Pred
      <4> SUFFICES ASSUME NEW pr \in Pred PROVE QualifyPred(q, pr) \in Pred
        OBVIOUS
      <4> DEFINE g == QualifyRef(q, pr.a)
      <4>1. g \in Ref
        BY <3>1 DEF Pred
      <4> HIDE DEF g
      <4>2. [pr EXCEPT !.a = g] \in Pred
        BY <4>1 DEF Pred
      <4> QED BY <4>2 DEF QualifyPred, g
    <3>3. \A c \in Conjunct : QualifyConj(q, c) \in Conjunct
      <4> SUFFICES ASSUME NEW c \in Conjunct PROVE QualifyConj(q, c) \in Conjunct
        OBVIOUS
      <4> DEFINE A == {QualifyPred(q, pr) : pr \in c.any}
      <4>1. A \in SUBSET Pred
        BY <3>2 DEF Conjunct
      <4> HIDE DEF A
      <4>2. [c EXCEPT !.any = A] \in Conjunct
        BY <4>1 DEF Conjunct
      <4> QED BY <4>2 DEF QualifyConj, A
    <3> QED BY <1>1, <1>t, <3>3 DEF Qualify
  <2> QED BY <1>1, <1>t, <2>1 DEF Qualify, TypeOK, eval
<1>2. CASE ScanFrom
  <2>1. Upto(q, 1, rows') /\ Upto(q, 1, whole')
    BY <1>2, <1>t, <1>q, <1>r, FirstTypes DEF ScanFrom
  <2>2. at = 0 /\ Upto(q, 1, result) /\ Upto(q, 2, todo) /\ Upto(q, 2, hits)
    <3>1. at = 0
      BY <1>2 DEF ScanFrom, AtInv
    <3>2. Upto(q, 0 + 1, result) /\ Upto(q, 1 + 1, todo) /\ Upto(q, 1 + 1, hits)
      BY <3>1, <1>t, <1>m
    <3> QED BY <3>1, <3>2
  <2>3. 1 \in 0..Len(q.src) /\ at' = 1 /\ at' + 1 = 2
    BY <1>2, <1>q DEF Places, ScanFrom
  <2> QED BY <1>2, <1>t, <1>b, <2>1, <2>2, <2>3 DEF ScanFrom, TypeOK, eval
<1>3. CASE CheckCancelled
  BY <1>3, <1>t DEF CheckCancelled, TypeOK, eval
<1>4. CASE ScanNext
  <2> DEFINE i == at + 1
  <2>1. i \in Places(q) /\ i > 1 /\ i - 1 = at
    BY <1>4, <1>n DEF ScanNext, AtInv, Places
  <2>2. met' \in SUBSET Row /\ got' \subseteq met' /\ todo' = Pairs(i, rows, got') /\ hits' = {}
    BY <1>4, <1>r, <2>1 DEF ScanNext
  <2>3. Upto(q, i, todo') /\ Upto(q, i, hits')
    <3>1. Upto(q, i - 1, rows) /\ got' \in SUBSET Row /\ i \in Nat
      BY <1>t, <1>n, <2>1, <2>2
    <3>2. Upto(q, i, Pairs(i, rows, got'))
      BY <1>q, <2>1, <3>1, PairTypes
    <3> QED BY <1>e, <2>2, <3>1, <3>2
  <2>4. pc' = "on" /\ UNCHANGED <<q, where, at, rows, whole, store, result, writes>>
        /\ ctx' \in [live : BOOLEAN, left : 0..Len(q.src), late : Nat]
    BY <1>4, <1>b DEF ScanNext
  <2>5. Upto(q, at + 1, todo') /\ Upto(q, at + 1, hits')
    BY <2>3
  <2> QED BY <1>t, <2>2, <2>4, <2>5 DEF TypeOK
<1>5. CASE Filter
  <2>1. Upto(q, at + 1, todo') /\ Upto(q, at + 1, hits')
    BY <1>5, <1>t, <1>m, <1>e, <1>n DEF Filter
  <2> QED BY <1>5, <1>t, <2>1 DEF Filter, TypeOK
<1>6. CASE Evaluate
  <2>1. todo' \subseteq todo /\ hits' \subseteq hits \cup todo
    BY <1>6 DEF Evaluate
  <2>2. Upto(q, at + 1, todo') /\ Upto(q, at + 1, hits')
    BY <1>t, <2>1 DEF Upto
  <2>3. ctx' \in [live : BOOLEAN, left : 0..Len(q.src), late : Nat]
    BY <1>6, <1>t DEF Evaluate
  <2> QED BY <1>6, <1>t, <2>2, <2>3 DEF Evaluate, TypeOK
<1>7. CASE JoinNext
  <2> DEFINE i == at + 1
  <2>1. i \in Places(q) /\ i > 1 /\ i - 1 = at
    BY <1>7, <1>n DEF JoinNext, AtInv, Places
  <2>2. hits \subseteq Pairs(i, rows, got) /\ got \in SUBSET Row
    BY <1>7, <1>t DEF JoinNext, EvalInv, Candidate
  <2>3. Matched(q, i, whole, met, SubFn(q, store)) \subseteq Pairs(i, whole, met)
    BY DEF Matched
  <2>4. Upto(q, i, rows') /\ Upto(q, i, whole')
    <3>1. Upto(q, i, Join(q, i, rows, got, hits))
      BY <1>t, <1>q, <2>1, <2>2, JoinTypes
    <3>2. Upto(q, i, Join(q, i, whole, met, Matched(q, i, whole, met, SubFn(q, store))))
      BY <1>t, <1>q, <2>1, <2>3, JoinTypes
    <3> QED BY <1>7, <3>1, <3>2 DEF JoinNext
  <2>5. Upto(q, i, result) /\ Upto(q, i + 1, todo') /\ Upto(q, i + 1, hits')
    BY <1>7, <1>t, <1>m, <1>e, <1>n DEF JoinNext
  <2>6. at' = i /\ i \in 0..Len(q.src)
    BY <1>7, <1>n, <2>1 DEF JoinNext, Places
  <2>7. met' = {} /\ got' = {}
    BY <1>7 DEF JoinNext
  <2> QED BY <1>7, <1>t, <2>4, <2>5, <2>6, <2>7 DEF JoinNext, TypeOK
<1>8. CASE Finish
  <2>1. Upto(q, at, result')
    BY <1>8, <1>t DEF Finish, EvalInv, Candidate, Upto
  <2> QED BY <1>8, <1>t, <2>1 DEF Finish, TypeOK, eval
<1>9. CASE JoinFails
  <2>1. ctx' \in [live : BOOLEAN, left : 0..Len(q.src), late : Nat]
    BY <1>9, <1>t, <1>b DEF JoinFails
  <2> QED BY <1>9, <1>t, <2>1 DEF JoinFails, TypeOK, eval
<1>10. CASE Cancel
  <2>1. ctx' \in [live : BOOLEAN, left : 0..Len(q.src), late : Nat]
    <3>1. (IF pc \in {"join", "on"} THEN at + 1 ELSE at) \in 0..Len(q.src)
      BY <1>t, <1>q, <1>n DEF AtInv, Places
    <3> QED BY <1>10, <1>t, <3>1 DEF Cancel
  <2>2. UNCHANGED <<q, where, pc, at, rows, eval, whole, store, result, writes>>
    BY <1>10 DEF Cancel
  <2> QED BY <1>t, <2>1, <2>2 DEF TypeOK, eval
<1>11. CASE Write
  <2>1. store' \in [Rel -> SUBSET Row]
    BY <1>11, <1>t, JoinsAssumption DEF Write
  <2>2. writes' \in Seq(Rel \ Local) /\ Len(writes') <= MaxWrites
    BY <1>11, <1>t, <1>n DEF Write
  <2> QED BY <1>11, <1>t, <2>1, <2>2 DEF Write, TypeOK, eval
<1>12. CASE UNCHANGED vars
  BY <1>12, <1>t DEF vars, TypeOK, eval
<1> QED BY <1>1, <1>2, <1>3, <1>4, <1>5, <1>6, <1>7, <1>8, <1>9, <1>10, <1>11, <1>12 DEF Next

(* Where the joins stand, and which WHERE they use, are kept too *)
LEMMA ControlStep == TypeOK /\ AtInv /\ WhereInv /\ [Next]_vars => AtInv' /\ WhereInv'
<1> SUFFICES ASSUME TypeOK, AtInv, WhereInv, [Next]_vars PROVE AtInv' /\ WhereInv'
  OBVIOUS
<1>q. q \in Queries /\ at \in 0..Len(q.src) /\ Len(q.src) \in Nat /\ 1 \in Places(q)
  BY Types, QueryTypes DEF AtInv
<1>1. CASE Qualify
  BY <1>1 DEF Qualify, AtInv, WhereInv
<1>2. CASE ScanFrom
  BY <1>2, <1>q DEF ScanFrom, AtInv, WhereInv
<1>3. CASE CheckCancelled
  BY <1>3 DEF CheckCancelled, AtInv, WhereInv
<1>4. CASE ScanNext
  BY <1>4 DEF ScanNext, AtInv, WhereInv
<1>5. CASE Filter
  BY <1>5 DEF Filter, AtInv, WhereInv
<1>6. CASE Evaluate
  BY <1>6 DEF Evaluate, AtInv, WhereInv
<1>7. CASE JoinNext
  BY <1>7 DEF JoinNext, AtInv, WhereInv
<1>8. CASE Finish
  BY <1>8 DEF Finish, AtInv, WhereInv
<1>9. CASE JoinFails
  BY <1>9 DEF JoinFails, AtInv, WhereInv
<1>10. CASE Cancel
  BY <1>10 DEF Cancel, AtInv, WhereInv
<1>11. CASE Write
  BY <1>11 DEF Write, AtInv, WhereInv
<1>12. CASE UNCHANGED vars
  BY <1>12 DEF vars, AtInv, WhereInv
<1> QED BY <1>1, <1>2, <1>3, <1>4, <1>5, <1>6, <1>7, <1>8, <1>9, <1>10, <1>11, <1>12 DEF Next

(* The query never changes; and where the subquery's table is not written, *)
(* what the subquery finds does not either                                 *)
LEMMA SteadyStep ==
  TypeOK /\ [Next]_vars => q' = q /\ (SubSteady' => SubSteady /\ SubFn(q, store') = SubFn(q, store))
<1> SUFFICES ASSUME TypeOK, [Next]_vars
             PROVE  q' = q /\ (SubSteady' => SubSteady /\ SubFn(q, store') = SubFn(q, store))
  OBVIOUS
<1>1. CASE Write
  <2>1. q' = q
    BY <1>1 DEF Write
  <2>2. PICK rel \in Rel \ Local, s \in Stores : store' = [store EXCEPT ![rel] = s[rel]] /\ writes' = Append(writes, rel)
    BY <1>1 DEF Write
  <2>3. writes \in Seq(Rel \ Local)
    BY Types
  <2>4. CASE HasSub(q) /\ SubSteady'
    <3>1. \A k \in DOMAIN writes' : writes'[k] # SubRel
      BY <2>1, <2>4 DEF SubSteady
    <3>2. rel # SubRel /\ \A k \in DOMAIN writes : writes[k] # SubRel
      BY <2>2, <2>3, <3>1
    <3>3. store'[SubRel] = store[SubRel]
      BY <2>2, <3>2, Types, JoinsAssumption
    <3> QED BY <2>1, <3>2, <3>3 DEF SubSteady, SubFn, SubOf
  <2>5. CASE ~HasSub(q)
    BY <2>1, <2>5 DEF SubSteady, SubFn
  <2> QED BY <2>1, <2>4, <2>5
<1>2. CASE ~Write
  <2>1. q' = q /\ store' = store /\ writes' = writes
    BY <1>2 DEF Next, vars, Qualify, ScanFrom, CheckCancelled, ScanNext, Filter, Evaluate, JoinNext, Finish, JoinFails, Cancel
  <2> QED BY <2>1 DEF SubSteady
<1> QED BY <1>1, <1>2

(* What is known of the WHERE joinQuery uses, once the query is clear *)
LEMMA WhereClear ==
  ASSUME q \in Queries, Clear(q), NoLocalSub(q), WhereInv
  PROVE  /\ where \in SUBSET Conjunct
         /\ \A f \in RefsOf(where) : ClearRef(q, Len(q.src), f)
         /\ (\E j \in Places(q) : q.src[j].rel \in Local) =>
               \A c \in where : \A pr \in c.any : pr.op # "in"
         /\ \A r, sub : Holds(where, RowEnv(q, Len(q.src), r), sub)
                       <=> Holds(q.where, RowEnv(q, Len(q.src), r), sub)
<1>1. CASE where = q.where
  BY <1>1, QueryTypes DEF Clear, NoLocalSub
<1>2. CASE where = {QualifyConj(q, c) : c \in q.where}
  BY <1>2, QualifiedWhere DEF NoLocalSub
<1> QED BY <1>1, <1>2 DEF WhereInv

(* Evaluating more rows, in whatever order, leaves the others alone *)
LEMMA EvalStep == TypeOK /\ AtInv /\ EvalInv /\ [Next]_vars => EvalInv'
<1> SUFFICES ASSUME TypeOK, AtInv, EvalInv, [Next]_vars PROVE EvalInv'
  OBVIOUS
<1>s. q' = q /\ (SubSteady' => SubSteady /\ SubFn(q, store') = SubFn(q, store))
  BY SteadyStep
<1>1. CASE ScanNext
  <2>1. /\ pc = "join" /\ pc' = "on" /\ at' = at /\ rows' = rows /\ where' = where /\ q' = q
        /\ todo' = Pairs(at + 1, rows, got') /\ hits' = {}
    BY <1>1 DEF ScanNext
  <2>2. Candidate' = Pairs(at + 1, rows, got')
    BY <2>1 DEF Candidate
  <2>3. \A t \in met' : Passes(q, where, at + 1, t) /\ SemiJoin(q, at + 1, rows, t) => t \in got'
    BY <1>1, ScanKeeps DEF ScanNext
  <2>4. EvalInv' <=> /\ todo' \subseteq Candidate' /\ hits' \subseteq Candidate'
                     /\ SubSteady' => hits' = {r \in Candidate' \ todo' : Holds(Condition, RowEnv(q, Span, r), SubFn(q, store))'}
                     /\ \A t \in met' : Passes(q, where, at + 1, t) /\ SemiJoin(q, at + 1, rows, t) => t \in got'
    BY <2>1 DEF EvalInv
  <2> QED BY <2>1, <2>2, <2>3, <2>4
<1>2. CASE Filter
  BY <1>2 DEF Filter, EvalInv, Candidate
<1>3. CASE Evaluate
  <2>1. /\ pc \in {"on", "where"} /\ pc' = pc /\ at' = at /\ rows' = rows /\ where' = where /\ got' = got
        /\ met' = met /\ store' = store /\ writes' = writes
    BY <1>3 DEF Evaluate
  <2>2. PICK some \in SUBSET todo :
          /\ todo' = todo \ some
          /\ hits' = hits \cup {r \in some : Holds(Condition, RowEnv(q, Span, r), SubFn(q, store))}
    BY <1>3 DEF Evaluate
  <2> DEFINE P(r) == Holds(Condition, RowEnv(q, Span, r), SubFn(q, store))
  <2>3. todo \subseteq Candidate /\ hits \subseteq Candidate /\ (SubSteady => hits = {r \in Candidate \ todo : P(r)})
    BY <2>1 DEF EvalInv
  <2>4. Candidate' = Candidate /\ Condition' = Condition /\ Span' = Span /\ (SubSteady' <=> SubSteady)
    BY <1>s, <2>1 DEF Candidate, Condition, Span, SubSteady
  <2>5. EvalInv' <=> /\ todo' \subseteq Candidate /\ hits' \subseteq Candidate
                     /\ SubSteady => hits' = {r \in Candidate \ todo' : P(r)}
                     /\ pc = "on" => \A t \in met : Passes(q, where, at + 1, t) /\ SemiJoin(q, at + 1, rows, t) => t \in got
    BY <1>s, <2>1, <2>4 DEF EvalInv
  <2> HIDE DEF P
  <2>6. hits' = hits \cup {r \in some : P(r)}
    BY <2>2 DEF P
  <2>7. pc = "on" => \A t \in met : Passes(q, where, at + 1, t) /\ SemiJoin(q, at + 1, rows, t) => t \in got
    BY DEF EvalInv
  <2> QED BY <2>2, <2>3, <2>5, <2>6, <2>7
<1>4. CASE Cancel \/ Write \/ UNCHANGED vars
  <2>1. /\ pc' = pc /\ at' = at /\ rows' = rows /\ where' = where /\ got' = got /\ met' = met
        /\ todo' = todo /\ hits' = hits
    BY <1>4 DEF Cancel, Write, vars, eval
  <2>2. Candidate' = Candidate /\ Condition' = Condition /\ Span' = Span
    BY <1>s, <2>1 DEF Candidate, Condition, Span
  <2>3. ASSUME pc \in {"on", "where"}, SubSteady'
        PROVE  hits = {r \in Candidate \ todo : Holds(Condition, RowEnv(q, Span, r), SubFn(q, store'))}
    BY <1>s, <2>3 DEF EvalInv
  <2>4. EvalInv' <=>
          /\ pc \in {"on", "where"} =>
               /\ todo \subseteq Candidate /\ hits \subseteq Candidate
               /\ SubSteady' => hits = {r \in Candidate \ todo : Holds(Condition, RowEnv(q, Span, r), SubFn(q, store'))}
          /\ pc = "on" => \A t \in met : Passes(q, where, at + 1, t) /\ SemiJoin(q, at + 1, rows, t) => t \in got
    BY <1>s, <2>1, <2>2 DEF EvalInv
  <2> QED BY <2>3, <2>4 DEF EvalInv
<1>5. CASE Qualify \/ ScanFrom \/ CheckCancelled \/ JoinNext \/ Finish \/ JoinFails
  BY <1>5 DEF Qualify, ScanFrom, CheckCancelled, JoinNext, Finish, JoinFails, EvalInv
<1> QED BY <1>1, <1>2, <1>3, <1>4, <1>5 DEF Next

(* The agreement survives every step *)
LEMMA AgreeStep == JoinInv /\ [Next]_vars => AgreeInv'
<1>s. JoinInv /\ [Next]_vars => q' = q /\ (SubSteady' => SubSteady /\ SubFn(q, store') = SubFn(q, store))
  BY SteadyStep DEF JoinInv
<1> SUFFICES ASSUME JoinInv, [Next]_vars, Clear(q), NoLocalSub(q), SubSteady, q' = q,
                    (pc \in {"loop", "join", "on", "where"})'
             PROVE  Agree(q, where', at', rows', whole')
  <2>2. q' = q => (Clear(q)' <=> Clear(q)) /\ (NoLocalSub(q)' <=> NoLocalSub(q))
    OBVIOUS
  <2>3. q' = q => (Agree(q, where, at, rows, whole)' <=> Agree(q, where', at', rows', whole'))
    OBVIOUS
  <2> QED BY <1>s, <2>2, <2>3 DEF AgreeInv, Sound
<1>t. /\ TypeOK /\ WhereInv /\ AtInv /\ EvalInv
      /\ q \in Queries /\ at \in 0..Len(q.src)
      /\ Upto(q, at, rows) /\ Upto(q, at, whole)
      /\ store \in [Rel -> SUBSET Row] /\ met \subseteq Row /\ got \subseteq met
  BY Types DEF JoinInv, AtInv
<1>q. Len(q.src) \in Nat /\ 1 \in Places(q) /\ \A i \in Places(q) : q.src[i] \in Source
  BY <1>t, QueryTypes
<1>r. \A i \in Places(q) : store[q.src[i].rel] \in SUBSET Row
  BY <1>t, <1>q DEF Source
<1>a. pc \in {"loop", "join", "on", "where"} => Agree(q, where, at, rows, whole)
  BY DEF JoinInv, AgreeInv, Sound
<1>1. CASE ScanFrom
  <2> DEFINE all == store[q.src[1].rel]
  <2>1. PICK ts \in SUBSET all : Scan(q, where, 1, {}, all, ts) /\ rows' = First(ts)
    BY <1>1 DEF ScanFrom
  <2>2. \A t \in all : SemiJoin(q, 1, {}, t)
    BY DEF SemiJoin, KeyValues
  <2>3. \A t \in all : Passes(q, where, 1, t) => t \in ts
    BY <2>1, <2>2, ScanKeeps
  <2>4. ASSUME NEW t \in all, Good(q, where, 1, [j \in Places(q) |-> IF j = 1 THEN t ELSE NullRow])
        PROVE  Passes(q, where, 1, t)
    BY <2>4, <1>q DEF Good
  <2>5. Agree(q, where, 1, First(ts), First(all))
    BY <2>3, <2>4 DEF Agree, First
  <2> QED BY <1>1, <2>1, <2>5 DEF ScanFrom
<1>2. CASE JoinNext
  <2> DEFINE i   == at + 1
             sub == SubFn(q, store)
  <2>1. i \in Places(q) /\ i > 1 /\ i - 1 = at /\ pc = "on" /\ todo = {}
    BY <1>2, <1>t, <1>q DEF JoinNext, AtInv, Places
  <2>2. \A t \in met : Passes(q, where, i, t) /\ SemiJoin(q, i, rows, t) => t \in got
    BY <1>t, <2>1 DEF EvalInv
  <2>3. hits = Matched(q, i, rows, got, sub)
    BY <1>t, <2>1 DEF EvalInv, Candidate, Condition, Span, Matched
  <2>4. /\ rows' = Join(q, i, rows, got, hits) /\ where' = where /\ at' = i
        /\ whole' = Join(q, i, whole, met, Matched(q, i, whole, met, sub))
    BY <1>2 DEF JoinNext
  <2> HIDE DEF i, sub
  <2>5. \A l \in rows, t \in met : On(q, i, l, t, sub) => SemiJoin(q, i, rows, t)
    BY <1>t, <2>1, SemiJoinKeeps DEF Upto
  <2>6. Agree(q, where, i - 1, rows, whole)
    BY <1>a, <2>1
  <2>7. Agree(q, where, i, Join(q, i, rows, got, Matched(q, i, rows, got, sub)),
                           Join(q, i, whole, met, Matched(q, i, whole, met, sub)))
    BY <1>t, <2>1, <2>2, <2>5, <2>6, JoinAgrees
  <2> QED BY <2>3, <2>4, <2>7
<1>3. CASE CheckCancelled \/ ScanNext \/ Filter \/ Evaluate \/ Cancel \/ Write \/ UNCHANGED vars
  <2>1. where' = where /\ at' = at /\ rows' = rows /\ whole' = whole
    BY <1>3 DEF CheckCancelled, ScanNext, Filter, Evaluate, Cancel, Write, vars
  <2>2. pc \in {"loop", "join", "on", "where"}
    BY <1>3 DEF CheckCancelled, ScanNext, Filter, Evaluate, Cancel, Write, vars
  <2> QED BY <1>a, <2>1, <2>2
<1>4. CASE Qualify \/ JoinFails \/ Finish
  BY <1>4 DEF Qualify, JoinFails, Finish
<1> QED BY <1>1, <1>2, <1>3, <1>4 DEF Next

(* The answer is taken from rows that agree *)
LEMMA SoundStep == JoinInv /\ [Next]_vars => PushdownSound'
<1>s. JoinInv /\ [Next]_vars => q' = q /\ (SubSteady' => SubSteady /\ SubFn(q, store') = SubFn(q, store))
  BY SteadyStep DEF JoinInv
<1> SUFFICES ASSUME JoinInv, [Next]_vars, Clear(q), NoLocalSub(q), SubSteady, q' = q, pc' = "done",
                    SubFn(q, store') = SubFn(q, store)
             PROVE  result' = {r \in whole' : Holds(q.where, RowEnv(q, at', r), SubFn(q, store'))}
  <2>2. q' = q => (Clear(q)' <=> Clear(q)) /\ (NoLocalSub(q)' <=> NoLocalSub(q))
    OBVIOUS
  <2> QED BY <1>s, <2>2 DEF PushdownSound, AnswerIsWhole
<1>t. /\ WhereInv /\ AtInv /\ EvalInv /\ q \in Queries /\ at \in 0..Len(q.src)
      /\ Upto(q, at, rows) /\ Upto(q, at, whole)
  BY Types DEF JoinInv, AtInv
<1>1. CASE Finish
  <2> DEFINE sub == SubFn(q, store)
  <2>1. pc = "where" /\ todo = {} /\ at = Len(q.src)
    BY <1>1, <1>t DEF Finish, AtInv
  <2>2. hits = {r \in rows : Holds(where, RowEnv(q, at, r), sub)}
    BY <1>t, <2>1 DEF EvalInv, Candidate, Condition, Span
  <2>3. result' = hits /\ whole' = whole /\ at' = at
    BY <1>1 DEF Finish
  <2>4. Agree(q, where, at, rows, whole)
    BY <2>1 DEF JoinInv, AgreeInv, Sound
  <2>5. ASSUME NEW r \in JoinedRow(q)
        PROVE  /\ Holds(where, RowEnv(q, at, r), sub) <=> Holds(q.where, RowEnv(q, at, r), sub)
               /\ Holds(where, RowEnv(q, at, r), sub) => (r \in rows <=> r \in whole)
    <3>1. Holds(where, RowEnv(q, at, r), sub) <=> Holds(q.where, RowEnv(q, at, r), sub)
      BY <1>t, <2>1, WhereClear
    <3>2. ASSUME Holds(where, RowEnv(q, at, r), sub) PROVE Good(q, where, at, r)
      BY <1>t, <2>1, <3>2, WhereClear, HoldsPasses DEF Good
    <3> QED BY <2>4, <3>1, <3>2 DEF Agree
  <2> HIDE DEF sub
  <2>6. result' = {r \in whole : Holds(q.where, RowEnv(q, at, r), sub)}
    BY <1>t, <2>2, <2>3, <2>5 DEF Upto
  <2> QED BY <2>3, <2>6 DEF sub
<1>2. CASE UNCHANGED vars
  BY <1>2 DEF vars, JoinInv, PushdownSound, AnswerIsWhole
<1>3. CASE ~Finish /\ Next
  BY <1>3 DEF Next, Qualify, ScanFrom, CheckCancelled, ScanNext, Filter, Evaluate, JoinNext, JoinFails, Cancel, Write
<1> QED BY <1>1, <1>2, <1>3

(* joinQuery starts well *)
LEMMA JoinInit == Init => JoinInv
<1> SUFFICES ASSUME Init PROVE JoinInv
  OBVIOUS
<1>1. q \in Queries /\ q.where \subseteq Conjunct /\ Len(q.src) \in Nat
  BY QueryTypes DEF Init
<1>2. \A k : Upto(q, k, {})
  BY DEF Upto
<1>3. TypeOK
  BY <1>1, <1>2, JoinsAssumption DEF Init, TypeOK
<1> QED BY <1>1, <1>3 DEF Init, JoinInv, WhereInv, AtInv, EvalInv, AgreeInv, Sound, PushdownSound, AnswerIsWhole

(* The inductive invariant of joinQuery *)
LEMMA JoinInvariant == Spec => []JoinInv
<1>1. JoinInv /\ [Next]_vars => JoinInv'
  BY JoinTypeStep, ControlStep, EvalStep, AgreeStep, SoundStep DEF JoinInv
<1> QED BY <1>1, JoinInit, PTL DEF Spec

(* joinQuery's state is well typed whatever the plans, tables and backends. *)
THEOREM JoinTypesCorrect == Spec => []TypeOK
BY JoinInvariant, PTL DEF JoinInv

(* Pushdown never changes an answer: for every number of sources, every mix *)
(* of joins, every WHERE and ON of clear names, all contents, concurrent    *)
(* writes and whatever the backends make of their hints.                    *)
THEOREM PushdownCorrect == Spec => []PushdownSound
BY JoinInvariant, PTL DEF JoinInv

-----------------------------------------------------------------------------
(* The names that a qualified WHERE has lost are those that QualifyRef gave *)
(* an alias.                                                                *)
LEMMA LostRef ==
  ASSUME NEW p \in Queries, NEW f \in RefsOf(p.where),
         f \notin RefsOf({QualifyConj(p, c) : c \in p.where})
  PROVE  f \in Ref /\ f.q = NoName /\ \E i \in Places(p) : Owners(p, f.c) = {i}
<1> DEFINE cs == {QualifyConj(p, c) : c \in p.where}
<1>1. PICK c \in p.where : \E pr \in c.any : f \in PredCols(pr)
  BY DEF RefsOf
<1>2. PICK pr \in c.any : f \in PredCols(pr)
  BY <1>1
<1>3. pr \in Pred /\ pr.a \in Ref /\ pr.b \in Ref /\ c \in Conjunct
  BY <1>1, <1>2, ColsAreRefs, QueryTypes DEF Conjunct
<1> DEFINE g == QualifyRef(p, pr.a)
           x == QualifyPred(p, pr)
<1>4. x.op = pr.op /\ x.b = pr.b /\ x.a = g
  <2>1. x = [pr EXCEPT !.a = g]
    BY DEF QualifyPred
  <2> HIDE DEF g, x
  <2> QED BY <1>3, <2>1 DEF Pred
<1>5. x \in QualifyConj(p, c).any
  <2> DEFINE A == {QualifyPred(p, y) : y \in c.any}
  <2>1. x \in A
    OBVIOUS
  <2>2. QualifyConj(p, c) = [c EXCEPT !.any = A]
    BY DEF QualifyConj
  <2> HIDE DEF A, x
  <2> QED BY <1>3, <2>1, <2>2 DEF Conjunct
<1>6. PredCols(x) \subseteq RefsOf(cs)
  <2>1. QualifyConj(p, c) \in cs
    OBVIOUS
  <2> HIDE DEF cs, x
  <2> QED BY <1>5, <2>1 DEF RefsOf
<1>7. f \notin PredCols(x)
  BY <1>6
<1>8. f = pr.a /\ g # f
  <2> HIDE DEF g, x
  <2> QED BY <1>2, <1>4, <1>7 DEF PredCols
<1>9. pr.a.q = NoName /\ \E i \in Places(p) : Owners(p, pr.a.c) = {i}
  BY <1>8 DEF QualifyRef
<1> QED BY <1>3, <1>8, <1>9

(* Where every source is in the scope under an alias of its own, a bare     *)
(* name with one owner is that source's column and nobody else's.           *)
LEMMA OwnedResolves ==
  ASSUME NEW p \in Queries, \A i \in Places(p) : InScope(p, i) /\ LastOf(p, i),
         NEW f \in Ref, f.q = NoName, NEW i \in Places(p), Owners(p, f.c) = {i}
  PROVE  Resolves(p, Len(p.src), f)
<1>1. 1..Len(p.src) = Places(p)
  BY DEF Places
<1>2. Owners(p, f.c) = {j \in Places(p) : HasCol(p, j, f.c)}
  BY DEF Owners
<1>3. \A j \in Places(p) : p.src[j].alias # f.q
  BY QueryTypes, JoinsAssumption DEF Source
<1>4. Candidates(p, Len(p.src), f) = {i}
  BY <1>1, <1>2, <1>3 DEF Candidates
<1> QED BY <1>1, <1>4 DEF Resolves

(* qualifyBareWhere leaves every name alone that two sources could mean,    *)
(* whatever the query.                                                      *)
THEOREM AmbiguousCorrect == Spec => []AmbiguousLeft
<1>1. JoinInv => AmbiguousLeft
  <2> SUFFICES ASSUME JoinInv, \A i \in Places(q) : InScope(q, i) /\ LastOf(q, i),
                      NEW f \in RefsOf(q.where), f \notin RefsOf(where)
               PROVE  Resolves(q, Len(q.src), f)
    BY DEF AmbiguousLeft
  <2>1. q \in Queries
    BY DEF JoinInv, AtInv
  <2>2. where = {QualifyConj(q, c) : c \in q.where}
    BY DEF JoinInv, WhereInv
  <2> QED BY <2>1, <2>2, LostRef, OwnedResolves
<1> QED BY <1>1, JoinInvariant, PTL

(* A scan counts as late if it begins after the caller has left: none does  *)
(* before the loop, and the check at its head lets none but the FROM's be   *)
(* followed by another.                                                     *)
LateInv ==
  /\ ctx.late <= 1
  /\ ctx.live \/ pc \in {"qualify", "from", "join"} => ctx.late = 0

LEMMA LateStep == TypeOK /\ LateInv /\ [Next]_vars => LateInv'
<1> SUFFICES ASSUME TypeOK, LateInv, [Next]_vars PROVE LateInv'
  OBVIOUS
<1>1. ctx \in [live : BOOLEAN, left : 0..Len(q.src), late : Nat]
  BY Types
<1>2. ASSUME pc \in {"from", "join"}, pc' \notin {"qualify", "from", "join"}, Began PROVE LateInv'
  BY <1>1, <1>2 DEF Began, LateInv
<1>3. CASE Qualify
  BY <1>3 DEF Qualify, LateInv
<1>4. CASE ScanFrom
  BY <1>2, <1>4 DEF ScanFrom
<1>5. CASE CheckCancelled
  BY <1>5 DEF CheckCancelled, LateInv
<1>6. CASE ScanNext
  BY <1>2, <1>6 DEF ScanNext
<1>7. CASE Evaluate
  BY <1>1, <1>7 DEF Evaluate, LateInv
<1>8. CASE JoinFails
  BY <1>2, <1>8 DEF JoinFails, LateInv
<1>9. CASE Filter \/ JoinNext \/ Finish \/ Write
  BY <1>9 DEF Filter, JoinNext, Finish, Write, LateInv
<1>10. CASE Cancel
  BY <1>1, <1>10 DEF Cancel, LateInv
<1>11. CASE UNCHANGED vars
  BY <1>11 DEF vars, LateInv
<1> QED BY <1>3, <1>4, <1>5, <1>6, <1>7, <1>8, <1>9, <1>10, <1>11 DEF Next

(* A caller who is gone left at the source then begun, and no source is     *)
(* begun after that but by a scan of the FROM or one already let through.   *)
LeftInv ==
  ~ctx.live =>
    /\ pc \in {"join", "on"} => ctx.left = at + 1
    /\ pc = "loop" /\ at > 1 => ctx.left = at
    /\ pc \in {"where", "done"} => ctx.left = Len(q.src)

LEMMA LeftStep == JoinInv /\ LeftInv /\ [Next]_vars => LeftInv'
<1> SUFFICES ASSUME JoinInv, LeftInv, [Next]_vars PROVE LeftInv'
  OBVIOUS
<1>1. /\ ctx \in [live : BOOLEAN, left : 0..Len(q.src), late : Nat]
      /\ AtInv /\ at \in Nat /\ Len(q.src) \in Nat /\ Len(q.src) >= 2
  BY Types, JoinsAssumption DEF JoinInv, AtInv
<1>2. Began => ctx'.live = ctx.live /\ ctx'.left = ctx.left
  BY <1>1 DEF Began
<1>3. CASE Qualify \/ CheckCancelled
  BY <1>3 DEF Qualify, CheckCancelled, LeftInv
<1>4. CASE ScanFrom \/ ScanNext \/ JoinFails
  BY <1>2, <1>4 DEF ScanFrom, ScanNext, JoinFails, LeftInv
<1>5. CASE Filter
  BY <1>1, <1>5 DEF Filter, LeftInv
<1>6. CASE Evaluate
  <2>1. ctx'.live = ctx.live /\ ctx'.left = ctx.left
    BY <1>1, <1>6 DEF Evaluate
  <2> QED BY <1>6, <2>1 DEF Evaluate, LeftInv
<1>7. CASE JoinNext
  BY <1>1, <1>7 DEF JoinNext, LeftInv
<1>8. CASE Finish \/ Write
  BY <1>8 DEF Finish, Write, LeftInv
<1>9. CASE Cancel
  BY <1>1, <1>9 DEF Cancel, LeftInv, AtInv
<1>10. CASE UNCHANGED vars
  BY <1>10 DEF vars, LeftInv
<1> QED BY <1>3, <1>4, <1>5, <1>6, <1>7, <1>8, <1>9, <1>10 DEF Next

(* Once the caller is gone joinQuery scans one more of its sources at most  *)
(* and evaluates no ON but that of the source under way, however many are   *)
(* left; the WHERE, and an answer, only if all of them were begun.          *)
THEOREM CancelCorrect == Spec => []CancelPrompt
<1>1. Init => LateInv /\ LeftInv
  BY DEF Init, LateInv, LeftInv
<1>2. LateInv /\ LeftInv => CancelPrompt
  BY DEF LateInv, LeftInv, CancelPrompt
<1>3. JoinInv => TypeOK
  BY DEF JoinInv
<1> QED BY <1>1, <1>2, <1>3, LateStep, LeftStep, JoinInvariant, PTL DEF Spec
=============================================================================
