----------------------------- MODULE InMemProofs -----------------------------
(***************************************************************************)
(* Theorems about InMem, for any tables, columns, values, readers and      *)
(* bounds: no array is in use twice, so that statements are atomic and     *)
(* touch one table (TableStore), and what readers without the mutex see is *)
(* disturbed by no statements but those that are said to.                  *)
(***************************************************************************)
EXTENDS InMem, SequenceTheorems, FiniteSetTheorems, WellFoundedInduction, TLAPS

-----------------------------------------------------------------------------
(* The arrays and who has them.  Each array in use is one table's columns, *)
(* its slice of rows or one of its rows, or the list of tables, and never  *)
(* two of them: what is written through one is seen through no other.      *)

Slice == [p : Nat \ {0}, n : Nat]
Cell  == Datum \cup Column \cup Table \cup Slice
Heap  == Seq(Seq(Cell))

Good(h, s) == s \in Slice /\ s.p <= Len(h) /\ s.n <= Len(h[s.p])

Row(h, x, k) == h[x.rows.p][k]
RowsNo(x)    == 1..x.rows.n
Arrays(h, x) == {x.cols.p, x.rows.p} \cup {Row(h, x, k).p : k \in RowsNo(x)}

TableOK(h, x) ==
  /\ x = [cols |-> x.cols, rows |-> x.rows]
  /\ Good(h, x.cols) /\ Good(h, x.rows) /\ x.cols.p # x.rows.p
  /\ \A k \in RowsNo(x) : /\ Good(h, Row(h, x, k)) /\ Row(h, x, k).n = x.cols.n
                          /\ Row(h, x, k).p \notin {x.cols.p, x.rows.p}
  /\ \A j, k \in RowsNo(x) : Row(h, x, j).p = Row(h, x, k).p => j = k

Apart ==
  /\ \A t, u \in DOMAIN tables : t # u => Arrays(heap, tables[t]) \cap Arrays(heap, tables[u]) = {}
  /\ \A t \in DOMAIN tables : order.p \notin Arrays(heap, tables[t])

HeapInv ==
  /\ heap \in Heap /\ DOMAIN tables \subseteq Table /\ tables = [t \in DOMAIN tables |-> tables[t]]
  /\ \A t \in DOMAIN tables : TableOK(heap, tables[t])
  /\ Good(heap, order) /\ Apart

(* the list of tables names each once *)
OrderInv ==
  LET names == heap[order.p] IN
  /\ \A i \in 1..order.n : names[i] \in DOMAIN tables
  /\ \A t \in DOMAIN tables : \E i \in 1..order.n : names[i] = t
  /\ \A i, j \in 1..order.n : names[i] = names[j] => i = j

(* An array a scan holds is in use by nothing but the columns or a row of  *)
(* the table it scanned, if by anything.                                   *)
Private(p, t) ==
  /\ p \in 1..Len(heap) /\ p # order.p
  /\ \A u \in DOMAIN tables : p \in Arrays(heap, tables[u]) => u = t /\ p # tables[u].rows.p

ReaderOK(r) ==
  LET q == reader[r] IN
  /\ q.at \in {"idle", "rows", "describe", "panic"}
  /\ q.at = "rows" =>
       /\ q = [at |-> "rows", table |-> q.table, cols |-> q.cols, rows |-> q.rows, snap |-> q.snap,
               disturbed |-> q.disturbed]
       /\ ~q.disturbed => /\ Held(r) = q.snap /\ Private(q.cols.p, q.table)
                          /\ \A k \in DOMAIN q.rows : Private(q.rows[k].p, q.table)
  /\ q.at = "describe" =>
       /\ q = [at |-> "describe", order |-> q.order, next |-> q.next, names |-> q.names,
               disturbed |-> q.disturbed]
       /\ ~q.disturbed => /\ q.order = order /\ q.next \in 1..(order.n + 1)
                          /\ q.names \in Seq(Table) /\ Len(q.names) = q.next - 1
                          /\ \A i \in 1..(q.next - 1) : q.names[i] = heap[order.p][i]
  /\ q.at = "panic" => q.disturbed

ReaderInv == DOMAIN reader = Reader /\ \A r \in Reader : ReaderOK(r)

IInv == HeapInv /\ OrderInv /\ ReaderInv

-----------------------------------------------------------------------------
(* Numbers and sequences *)

LEMMA LeastNumber ==
  ASSUME NEW T, T \subseteq Nat, T # {}
  PROVE  \E x \in T : \A y \in T : x <= y
<1> DEFINE R == OpToRel(<, Nat)
<1>1. PICK x \in T : \A y \in T : ~(<<y, x>> \in R)
  BY NatLessThanWellFounded, WFMin
<1>2. \A y \in T : ~(y < x)
  BY <1>1 DEF OpToRel
<1> QED BY <1>2

LEMMA FnSeq ==
  ASSUME NEW S, NEW n \in Nat, NEW f, f = [i \in 1..n |-> f[i]], \A i \in 1..n : f[i] \in S
  PROVE  f \in Seq(S) /\ Len(f) = n
<1>1. f \in [1..n -> S]
  OBVIOUS
<1> QED BY <1>1

-----------------------------------------------------------------------------
(* Slices *)

LEMMA HeapIs ==
  ASSUME NEW h \in Heap
  PROVE  /\ Len(h) \in Nat /\ DOMAIN h = 1..Len(h)
         /\ \A p \in 1..Len(h) : /\ h[p] \in Seq(Cell) /\ Len(h[p]) \in Nat /\ DOMAIN h[p] = 1..Len(h[p])
                                 /\ \A i \in 1..Len(h[p]) : h[p][i] \in Cell
BY DEF Heap

LEMMA GoodIs ==
  ASSUME NEW h \in Heap, NEW s, Good(h, s)
  PROVE  /\ s = [p |-> s.p, n |-> s.n] /\ s \in Cell
         /\ s.p \in 1..Len(h) /\ s.n \in Nat /\ Len(h[s.p]) \in Nat /\ s.n <= Len(h[s.p])
BY HeapIs DEF Good, Slice, Cell

(* what a slice shows *)
LEMMA ItemsAre ==
  ASSUME NEW h \in Heap, NEW s, Good(h, s)
  PROVE  /\ Items(h, s) \in Seq(Cell) /\ Len(Items(h, s)) = s.n /\ DOMAIN Items(h, s) = 1..s.n
         /\ \A i \in 1..s.n : Items(h, s)[i] = h[s.p][i]
<1>1. s.n \in Nat /\ s.n <= Len(h[s.p]) /\ Len(h[s.p]) \in Nat /\ \A i \in 1..Len(h[s.p]) : h[s.p][i] \in Cell
  BY GoodIs, HeapIs
<1>2. \A i \in 1..s.n : h[s.p][i] \in Cell
  BY <1>1
<1> DEFINE z == SubSeq(h[s.p], 1, s.n)
<1>3. z \in Seq(Cell) /\ Len(z) = (IF 1 <= s.n THEN s.n - 1 + 1 ELSE 0) /\ \A i \in 1..(s.n - 1 + 1) : z[i] = h[s.p][1 + i - 1]
  BY <1>1, <1>2, SubSeqProperties
<1> HIDE DEF z
<1>4. Len(z) = s.n /\ DOMAIN z = 1..s.n
  BY <1>1, <1>3
<1>5. \A i \in 1..s.n : z[i] = h[s.p][i]
  BY <1>1, <1>3
<1> QED BY <1>3, <1>4, <1>5 DEF z, Items

(* the same through another slice, or in another heap *)
LEMMA ItemsSame ==
  ASSUME NEW h \in Heap, NEW s, Good(h, s), NEW q \in Seq(Cell), Len(q) = s.n, \A i \in 1..s.n : q[i] = h[s.p][i]
  PROVE  Items(h, s) = q
<1>1. /\ Items(h, s) \in Seq(Cell) /\ Len(Items(h, s)) = Len(q)
      /\ \A i \in 1..Len(Items(h, s)) : Items(h, s)[i] = q[i]
  BY ItemsAre
<1> QED BY <1>1, SeqEqual

LEMMA GoodKept ==
  ASSUME NEW h \in Heap, NEW g \in Heap, Len(h) <= Len(g), NEW s, Good(h, s), g[s.p] = h[s.p]
  PROVE  Good(g, s) /\ Items(g, s) = Items(h, s)
<1>1. Len(h) \in Nat /\ Len(g) \in Nat
  BY HeapIs
<1> QED BY <1>1 DEF Good, Items, Slice

(* a heap that keeps what h has, but for the arrays in W *)
Keeps(h, g, W) ==
  /\ g \in Heap /\ Len(h) <= Len(g)
  /\ \A p \in 1..Len(h) : p \notin W => g[p] = h[p]

Fresh(h, p) == p > Len(h)

LEMMA AllocIs ==
  ASSUME NEW h \in Heap, NEW xs \in Seq(Cell)
  PROVE  LET out == Alloc(h, xs) IN
         /\ Keeps(h, out.heap, {}) /\ Len(out.heap) = Len(h) + 1
         /\ out.slice = [p |-> Len(h) + 1, n |-> Len(xs)] /\ Good(out.heap, out.slice)
         /\ out.heap[Len(h) + 1] = xs
<1> DEFINE g == Append(h, xs)
<1>1. /\ g \in Heap /\ Len(h) \in Nat /\ Len(g) = Len(h) + 1 /\ Len(xs) \in Nat
      /\ (\A p \in 1..Len(h) : g[p] = h[p]) /\ g[Len(h) + 1] = xs
  BY AppendProperties DEF Heap
<1> HIDE DEF g
<1>2. Alloc(h, xs) = [heap |-> g, slice |-> [p |-> Len(h) + 1, n |-> Len(xs)]]
  BY DEF Alloc, g
<1> QED BY <1>1, <1>2 DEF Keeps, Good, Slice

(* append: in place where there is room, in an array of its own where not *)
LEMMA AppendToIs ==
  ASSUME InMemAssumption, NEW h \in Heap, NEW s, Good(h, s), NEW x \in Cell
  PROVE  LET out == AppendTo(h, s, x) IN
         /\ Keeps(h, out.heap, {s.p})
         /\ Good(out.heap, out.slice) /\ out.slice.n = s.n + 1
         /\ out.slice.p = s.p \/ Fresh(h, out.slice.p)
         /\ Items(out.heap, out.slice) = Append(Items(h, s), x)
<1> DEFINE z == Append(Items(h, s), x)
<1>1. /\ s = [p |-> s.p, n |-> s.n] /\ s.p \in 1..Len(h) /\ s.n \in Nat /\ Len(h[s.p]) \in Nat /\ s.n <= Len(h[s.p])
      /\ Len(h) \in Nat /\ h[s.p] \in Seq(Cell) /\ \A i \in 1..Len(h[s.p]) : h[s.p][i] \in Cell
  BY GoodIs, HeapIs
<1>2. /\ z \in Seq(Cell) /\ Len(z) = s.n + 1 /\ z[s.n + 1] = x
      /\ \A i \in 1..s.n : z[i] = h[s.p][i]
  <2>1. Items(h, s) \in Seq(Cell) /\ Len(Items(h, s)) = s.n /\ \A i \in 1..s.n : Items(h, s)[i] = h[s.p][i]
    BY ItemsAre
  <2> QED BY <1>1, <2>1, AppendProperties
<1> HIDE DEF z
<1>3. CASE s.n < Len(h[s.p])
  <2> DEFINE a == [h[s.p] EXCEPT ![s.n + 1] = x]
             g == [h EXCEPT ![s.p] = a]
             u == [p |-> s.p, n |-> s.n + 1]
  <2>1. s.n + 1 \in 1..Len(h[s.p])
    BY <1>1, <1>3
  <2>2. /\ a \in Seq(Cell) /\ Len(a) = Len(h[s.p])
        /\ \A i \in 1..Len(h[s.p]) : a[i] = IF i = s.n + 1 THEN x ELSE h[s.p][i]
    BY <1>1, <2>1, ExceptSeq
  <2> HIDE DEF a
  <2>3. g \in Heap /\ Len(g) = Len(h) /\ \A p \in 1..Len(h) : g[p] = IF p = s.p THEN a ELSE h[p]
    BY <1>1, <2>2, ExceptSeq DEF Heap
  <2>4. AppendTo(h, s, x) = [heap |-> g, slice |-> u]
    <3>1. [s EXCEPT !.n = @ + 1] = u
      BY <1>1
    <3>2. [h EXCEPT ![s.p][s.n + 1] = x] = g
      BY DEF a
    <3> QED BY <1>3, <3>1, <3>2 DEF AppendTo
  <2> HIDE DEF g
  <2>5. Keeps(h, g, {s.p}) /\ Good(g, u)
    BY <1>1, <1>3, <2>2, <2>3 DEF Keeps, Good, Slice
  <2>6. \A i \in 1..u.n : z[i] = g[u.p][i]
    BY <1>1, <1>2, <2>1, <2>2, <2>3
  <2>7. Items(g, u) = z
    BY <1>2, <2>3, <2>5, <2>6, ItemsSame
  <2> QED BY <2>4, <2>5, <2>7 DEF z
<1>4. CASE ~(s.n < Len(h[s.p]))
  <2> DEFINE room == IF s.n = 0 THEN 0 ELSE s.n - 1
             tail == [i \in 1..room |-> Null]
             a == z \o tail
             g == Append(h, a)
             u == [p |-> Len(h) + 1, n |-> s.n + 1]
  <2>1. tail \in Seq(Cell) /\ Len(tail) = room /\ room \in Nat
    <3>1. Null \in Cell /\ room \in Nat
      BY <1>1 DEF Cell, Datum
    <3> QED BY <3>1, FnSeq
  <2> HIDE DEF tail, room
  <2>2. a \in Seq(Cell) /\ Len(a) = s.n + 1 + room /\ \A i \in 1..(s.n + 1) : a[i] = z[i]
    <3>1. /\ a \in Seq(Cell) /\ Len(a) = Len(z) + Len(tail)
          /\ \A i \in 1..(Len(z) + Len(tail)) : a[i] = IF i <= Len(z) THEN z[i] ELSE tail[i - Len(z)]
      BY <1>2, <2>1, ConcatProperties
    <3> HIDE DEF a
    <3> QED BY <1>1, <1>2, <2>1, <3>1
  <2> HIDE DEF a
  <2>3. g \in Heap /\ Len(g) = Len(h) + 1 /\ (\A p \in 1..Len(h) : g[p] = h[p]) /\ g[Len(h) + 1] = a
    BY <2>2, AppendProperties DEF Heap
  <2>4. AppendTo(h, s, x) = [heap |-> g, slice |-> u]
    BY <1>4 DEF AppendTo, z, a, tail, room
  <2> HIDE DEF g
  <2>5. Keeps(h, g, {s.p}) /\ Good(g, u) /\ Fresh(h, u.p)
    BY <1>1, <2>1, <2>2, <2>3 DEF Keeps, Good, Slice, Fresh
  <2>6. \A i \in 1..u.n : z[i] = g[u.p][i]
    BY <1>1, <1>2, <2>2, <2>3
  <2>7. Items(g, u) = z
    BY <1>2, <2>3, <2>5, <2>6, ItemsSame
  <2> QED BY <2>4, <2>5, <2>7 DEF z
<1> QED BY <1>3, <1>4

(* a slice without its i-th cell, in place *)
LEMMA CutIs ==
  ASSUME NEW h \in Heap, NEW s, Good(h, s), NEW i \in 1..s.n
  PROVE  LET out == Cut(h, s, i) IN
         /\ Keeps(h, out.heap, {s.p}) /\ Len(out.heap) = Len(h)
         /\ Good(out.heap, out.slice) /\ out.slice = [p |-> s.p, n |-> s.n - 1]
         /\ \A j \in 1..(s.n - 1) : out.heap[s.p][j] = IF j < i THEN h[s.p][j] ELSE h[s.p][j + 1]
<1> DEFINE b == h[s.p]
           l == SubSeq(b, 1, i - 1)
           m == SubSeq(b, i + 1, s.n)
           r == SubSeq(b, s.n, Len(b))
           a == l \o m \o r
           g == [h EXCEPT ![s.p] = a]
           u == [p |-> s.p, n |-> s.n - 1]
<1>1. /\ s = [p |-> s.p, n |-> s.n] /\ s.p \in 1..Len(h) /\ s.n \in Nat /\ Len(b) \in Nat /\ s.n <= Len(b)
      /\ Len(h) \in Nat /\ \A j \in 1..Len(b) : b[j] \in Cell
  BY GoodIs, HeapIs
<1>2. Cut(h, s, i) = [heap |-> g, slice |-> u]
  <2>1. [s EXCEPT !.n = @ - 1] = u
    BY <1>1
  <2> QED BY <2>1 DEF Cut
<1> HIDE DEF b
<1>3. l \in Seq(Cell) /\ Len(l) = i - 1 /\ \A j \in 1..(i - 1) : l[j] = b[j]
  <2>1. \A j \in 1..(i - 1) : b[j] \in Cell
    BY <1>1
  <2>2. /\ l \in Seq(Cell) /\ Len(l) = (IF 1 <= i - 1 THEN i - 1 - 1 + 1 ELSE 0)
        /\ \A j \in 1..(i - 1 - 1 + 1) : l[j] = b[1 + j - 1]
    BY <1>1, <2>1, SubSeqProperties
  <2> HIDE DEF l
  <2> QED BY <1>1, <2>2
<1>4. m \in Seq(Cell) /\ Len(m) = s.n - i /\ \A j \in 1..(s.n - i) : m[j] = b[j + i]
  <2>1. \A j \in (i + 1)..s.n : b[j] \in Cell
    BY <1>1
  <2>2. /\ m \in Seq(Cell) /\ Len(m) = (IF i + 1 <= s.n THEN s.n - (i + 1) + 1 ELSE 0)
        /\ \A j \in 1..(s.n - (i + 1) + 1) : m[j] = b[i + 1 + j - 1]
    BY SMTT(30), <1>1, <2>1, SubSeqProperties
  <2> HIDE DEF m
  <2> QED BY <1>1, <2>2
<1>5. r \in Seq(Cell) /\ Len(r) = Len(b) - s.n + 1
  <2>1. \A j \in s.n..Len(b) : b[j] \in Cell
    BY <1>1
  <2>2. r \in Seq(Cell) /\ Len(r) = (IF s.n <= Len(b) THEN Len(b) - s.n + 1 ELSE 0)
    BY <1>1, <2>1, SubSeqProperties
  <2> HIDE DEF r
  <2> QED BY <1>1, <2>2
<1> HIDE DEF l, m, r
<1>6. /\ a \in Seq(Cell) /\ Len(a) = Len(b)
      /\ \A j \in 1..(s.n - 1) : a[j] = IF j < i THEN b[j] ELSE b[j + 1]
  <2> DEFINE lm == l \o m
  <2>1. /\ lm \in Seq(Cell) /\ Len(lm) = s.n - 1
        /\ \A j \in 1..(s.n - 1) : lm[j] = IF j <= i - 1 THEN l[j] ELSE m[j - (i - 1)]
    BY SMTT(30), <1>1, <1>3, <1>4, ConcatProperties
  <2>2. \A j \in 1..(s.n - 1) : lm[j] = IF j < i THEN b[j] ELSE b[j + 1]
    <3> SUFFICES ASSUME NEW j \in 1..(s.n - 1) PROVE lm[j] = IF j < i THEN b[j] ELSE b[j + 1]
      OBVIOUS
    <3>1. CASE j < i
      BY <1>1, <1>3, <2>1, <3>1
    <3>2. CASE ~(j < i)
      <4>1. j - (i - 1) \in 1..(s.n - i) /\ j - (i - 1) + i = j + 1 /\ ~(j <= i - 1)
        BY <1>1, <3>2
      <4> QED BY <1>4, <2>1, <3>2, <4>1
    <3> QED BY <3>1, <3>2
  <2> HIDE DEF lm
  <2> DEFINE c == lm \o r
  <2>3. /\ c \in Seq(Cell) /\ Len(c) = Len(lm) + Len(r)
        /\ \A j \in 1..(Len(lm) + Len(r)) : c[j] = IF j <= Len(lm) THEN lm[j] ELSE r[j - Len(lm)]
    BY <1>5, <2>1, ConcatProperties
  <2>4. a = c
    BY DEF lm
  <2> HIDE DEF a, c
  <2>5. Len(a) = Len(b)
    BY <1>1, <1>5, <2>1, <2>3, <2>4
  <2>6. ASSUME NEW j \in 1..(s.n - 1) PROVE a[j] = lm[j]
    <3>1. j \in 1..(Len(lm) + Len(r)) /\ j <= Len(lm)
      BY <1>1, <1>5, <2>1
    <3> QED BY <2>3, <2>4, <3>1
  <2> QED BY <2>2, <2>3, <2>4, <2>5, <2>6
<1> HIDE DEF a
<1>7. g \in Heap /\ Len(g) = Len(h) /\ \A p \in 1..Len(h) : g[p] = IF p = s.p THEN a ELSE h[p]
  BY <1>1, <1>6, ExceptSeq DEF Heap
<1> HIDE DEF g
<1>8. Keeps(h, g, {s.p})
  BY <1>1, <1>7 DEF Keeps
<1>9. Good(g, u)
  <2>1. s.n - 1 \in Nat /\ s.n - 1 <= Len(a) /\ g[s.p] = a
    BY <1>1, <1>6, <1>7
  <2>2. s.p \in Nat \ {0} /\ s.p <= Len(g)
    BY <1>1, <1>7
  <2> QED BY <2>1, <2>2 DEF Good, Slice
<1> QED BY <1>1, <1>2, <1>6, <1>7, <1>8, <1>9 DEF b

LEMMA CutItems ==
  ASSUME NEW h \in Heap, NEW s, Good(h, s), NEW i \in 1..s.n
  PROVE  LET out == Cut(h, s, i) IN Items(out.heap, out.slice) = Store!Without(Items(h, s), i)
<1> DEFINE out == Cut(h, s, i)
           z == Items(h, s)
           l == SubSeq(z, 1, i - 1)
           r == SubSeq(z, i + 1, s.n)
           a == l \o r
<1>1. /\ out.heap \in Heap /\ Good(out.heap, out.slice) /\ out.slice = [p |-> s.p, n |-> s.n - 1]
      /\ \A j \in 1..(s.n - 1) : out.heap[s.p][j] = IF j < i THEN h[s.p][j] ELSE h[s.p][j + 1]
  BY CutIs DEF Keeps
<1>2. s.n \in Nat
  BY GoodIs
<1>3. z \in Seq(Cell) /\ Len(z) = s.n /\ \A j \in 1..s.n : z[j] = h[s.p][j] /\ z[j] \in Cell
  BY ItemsAre
<1> HIDE DEF out, z
<1>4. l \in Seq(Cell) /\ Len(l) = i - 1 /\ \A j \in 1..(i - 1) : l[j] = z[j]
  <2>1. /\ l \in Seq(Cell) /\ Len(l) = (IF 1 <= i - 1 THEN i - 1 - 1 + 1 ELSE 0)
        /\ \A j \in 1..(i - 1 - 1 + 1) : l[j] = z[1 + j - 1]
    BY <1>2, <1>3, SubSeqProperties
  <2> HIDE DEF l
  <2> QED BY <1>2, <2>1
<1>5. r \in Seq(Cell) /\ Len(r) = s.n - i /\ \A j \in 1..(s.n - i) : r[j] = z[j + i]
  <2>1. /\ r \in Seq(Cell) /\ Len(r) = (IF i + 1 <= s.n THEN s.n - (i + 1) + 1 ELSE 0)
        /\ \A j \in 1..(s.n - (i + 1) + 1) : r[j] = z[i + 1 + j - 1]
    BY <1>2, <1>3, SubSeqProperties
  <2> HIDE DEF r
  <2> QED BY <1>2, <2>1
<1> HIDE DEF l, r
<1>6. /\ a \in Seq(Cell) /\ Len(a) = Len(l) + Len(r)
      /\ \A j \in 1..(Len(l) + Len(r)) : a[j] = IF j <= Len(l) THEN l[j] ELSE r[j - Len(l)]
  BY <1>4, <1>5, ConcatProperties
<1> HIDE DEF a
<1>7. Len(a) = s.n - 1
  BY <1>2, <1>4, <1>5, <1>6
<1>8. ASSUME NEW j \in 1..(s.n - 1) PROVE a[j] = out.heap[s.p][j]
  <2>1. j \in 1..(Len(l) + Len(r)) /\ j \in 1..s.n /\ j + 1 \in 1..s.n
    BY <1>2, <1>4, <1>5
  <2>2. CASE j < i
    BY <1>1, <1>2, <1>3, <1>4, <1>6, <2>1, <2>2
  <2>3. CASE ~(j < i)
    <3>1. j - (i - 1) \in 1..(s.n - i) /\ j - (i - 1) + i = j + 1 /\ ~(j <= i - 1)
      BY <1>2, <2>3
    <3>2. a[j] = r[j - (i - 1)]
      BY <1>4, <1>6, <2>1, <3>1
    <3>3. a[j] = z[j + 1]
      BY <1>5, <3>1, <3>2
    <3> QED BY <1>1, <1>3, <2>1, <2>3, <3>3
  <2> QED BY <2>2, <2>3
<1>9. Items(out.heap, out.slice) = a
  BY <1>1, <1>6, <1>7, <1>8, ItemsSame
<1>10. Store!Without(z, i) = a
  BY <1>3 DEF Store!Without, a, l, r
<1> QED BY <1>9, <1>10 DEF out, z

-----------------------------------------------------------------------------
(* Tables: what one shows *)

Shown(h, x) == [k \in RowsNo(x) |-> Items(h, Row(h, x, k))]

LEMMA TableIs ==
  ASSUME NEW h \in Heap, NEW x, TableOK(h, x)
  PROVE  /\ x.rows.n \in Nat /\ x.cols.n \in Nat
         /\ x.rows.p \in 1..Len(h) /\ x.cols.p \in 1..Len(h) /\ x.rows.n <= Len(h[x.rows.p])
         /\ RowsNo(x) \subseteq 1..Len(h[x.rows.p])
         /\ \A k \in RowsNo(x) : Good(h, Row(h, x, k)) /\ Row(h, x, k).p \in 1..Len(h)
         /\ Arrays(h, x) \subseteq 1..Len(h)
         /\ View(h, x) = [cols |-> Items(h, x.cols), rows |-> Shown(h, x)]
         /\ Shown(h, x) \in Seq(Seq(Cell)) /\ Len(Shown(h, x)) = x.rows.n
         /\ \A k \in RowsNo(x) : Shown(h, x)[k] = Items(h, Row(h, x, k)) /\ Len(Shown(h, x)[k]) = x.cols.n
<1>1. Good(h, x.cols) /\ Good(h, x.rows) /\ \A k \in RowsNo(x) : Good(h, Row(h, x, k)) /\ Row(h, x, k).n = x.cols.n
  BY DEF TableOK
<1>2. /\ x.rows.n \in Nat /\ x.cols.n \in Nat /\ x.rows.p \in 1..Len(h) /\ x.cols.p \in 1..Len(h)
      /\ x.rows.n <= Len(h[x.rows.p]) /\ Len(h[x.rows.p]) \in Nat
      /\ \A k \in RowsNo(x) : Row(h, x, k).p \in 1..Len(h)
  BY <1>1, GoodIs
<1>3. RowsNo(x) \subseteq 1..Len(h[x.rows.p])
  BY <1>2 DEF RowsNo
<1>4. Arrays(h, x) \subseteq 1..Len(h)
  BY <1>2 DEF Arrays
<1>5. \A k \in RowsNo(x) : Items(h, Row(h, x, k)) \in Seq(Cell) /\ Len(Items(h, Row(h, x, k))) = x.cols.n
  BY <1>1, ItemsAre
<1>6. Shown(h, x) \in Seq(Seq(Cell)) /\ Len(Shown(h, x)) = x.rows.n
  <2> DEFINE z == Shown(h, x)
             rows == Seq(Cell)
             n == x.rows.n
  <2>1. z = [k \in 1..n |-> z[k]] /\ \A k \in 1..n : z[k] \in rows
    BY <1>5 DEF Shown, RowsNo
  <2>2. n \in Nat
    BY <1>2
  <2> HIDE DEF z, rows, n
  <2>3. z \in Seq(rows) /\ Len(z) = n
    BY <2>1, <2>2, FnSeq
  <2> QED BY <2>3 DEF z, rows, n
<1>7. RowsOf(h, Items(h, x.rows)) = Shown(h, x)
  <2>1. DOMAIN Items(h, x.rows) = RowsNo(x) /\ \A k \in RowsNo(x) : Items(h, x.rows)[k] = Row(h, x, k)
    BY <1>1, ItemsAre DEF RowsNo, Row
  <2> QED BY <2>1 DEF RowsOf, Shown
<1>8. \A k \in RowsNo(x) : Shown(h, x)[k] = Items(h, Row(h, x, k))
  BY DEF Shown
<1>9. View(h, x) = [cols |-> Items(h, x.cols), rows |-> Shown(h, x)]
  BY <1>7 DEF View
<1> QED BY <1>1, <1>2, <1>3, <1>4, <1>5, <1>6, <1>8, <1>9

(* a table none of whose arrays is written is the table it was *)
LEMMA TableKept ==
  ASSUME NEW h \in Heap, NEW x, TableOK(h, x), NEW g \in Heap, Len(h) <= Len(g), \A p \in Arrays(h, x) : g[p] = h[p]
  PROVE  TableOK(g, x) /\ Arrays(g, x) = Arrays(h, x) /\ View(g, x) = View(h, x)
<1>1. Len(h) \in Nat /\ Len(g) \in Nat
  BY HeapIs
<1>2. \A s : Good(h, s) /\ s.p \in Arrays(h, x) => Good(g, s) /\ Items(g, s) = Items(h, s)
  BY <1>1 DEF Good, Slice, Items
<1>3. x.rows.p \in Arrays(h, x) /\ x.cols.p \in Arrays(h, x) /\ \A k \in RowsNo(x) : Row(h, x, k).p \in Arrays(h, x)
  BY DEF Arrays
<1>4. \A k \in RowsNo(x) : Row(g, x, k) = Row(h, x, k)
  BY <1>3 DEF Row
<1>5. Arrays(g, x) = Arrays(h, x)
  BY <1>4 DEF Arrays
<1>6. TableOK(g, x)
  BY <1>2, <1>3, <1>4 DEF TableOK
<1>7. Shown(g, x) = Shown(h, x)
  BY <1>2, <1>3, <1>4 DEF Shown, TableOK
<1>8. View(g, x) = View(h, x)
  BY <1>2, <1>3, <1>6, <1>7, TableIs DEF TableOK
<1> QED BY <1>5, <1>6, <1>8

-----------------------------------------------------------------------------
(* ALTER TABLE's loop over the rows of a table *)

(* what it does to one row: i = 0 is ADD, any other the column to DROP *)
RowOp(i, h, s) ==
  IF i = 0 THEN AppendTo(h, s, Null)
  ELSE IF i <= s.n THEN Cut(h, s, i) ELSE [heap |-> h, slice |-> s]

LoopStep(i, p, k, h) == LET r == RowOp(i, h, h[p][k]) IN [r.heap EXCEPT ![p][k] = r.slice]

Loop(i, h, p, n, g) == g = [k \in 0..n |-> IF k = 0 THEN h ELSE LoopStep(i, p, k, g[k - 1])]

LEMMA LoopExists ==
  ASSUME NEW i, NEW h, NEW p, NEW n \in Nat
  PROVE  \E g : Loop(i, h, p, n, g)
<1> DEFINE T == {m \in Nat : ~\E g : Loop(i, h, p, m, g)}
<1>1. ASSUME T # {} PROVE FALSE
  <2>1. PICK m \in T : \A y \in T : m <= y
    BY <1>1, LeastNumber
  <2>2. CASE m = 0
    <3> DEFINE g == [k \in 0..0 |-> h]
    <3>1. g = [k \in 0..0 |-> IF k = 0 THEN h ELSE LoopStep(i, p, k, g[k - 1])]
      OBVIOUS
    <3> QED BY <2>1, <2>2, <3>1 DEF Loop
  <2>3. CASE m # 0
    <3>1. m - 1 \in Nat /\ m - 1 \notin T
      BY <2>1, <2>3
    <3>2. PICK g : Loop(i, h, p, m - 1, g)
      BY <3>1
    <3> DEFINE f == [k \in 0..m |-> IF k = m THEN LoopStep(i, p, m, g[m - 1]) ELSE g[k]]
    <3>3. ASSUME NEW k \in 0..m PROVE f[k] = IF k = 0 THEN h ELSE LoopStep(i, p, k, f[k - 1])
      <4>1. CASE k = 0
        BY <2>3, <3>1, <3>2, <4>1 DEF Loop
      <4>2. CASE k # 0 /\ k # m
        <5>1. k \in 0..(m - 1) /\ k - 1 \in 0..m /\ k - 1 # m
          BY <2>1, <4>2
        <5>2. f[k] = g[k] /\ f[k - 1] = g[k - 1]
          BY <4>2, <5>1
        <5>3. g[k] = LoopStep(i, p, k, g[k - 1])
          BY <3>2, <4>2, <5>1 DEF Loop
        <5> QED BY <4>2, <5>2, <5>3
      <4>3. CASE k = m
        <5>1. m - 1 \in 0..m /\ m - 1 # m
          BY <2>3
        <5>2. f[m - 1] = g[m - 1]
          BY <5>1
        <5> QED BY <2>3, <4>3, <5>2
      <4> QED BY <4>1, <4>2, <4>3
    <3>4. Loop(i, h, p, m, f)
      <4> DEFINE e == [k \in 0..m |-> IF k = 0 THEN h ELSE LoopStep(i, p, k, f[k - 1])]
      <4>1. \A k \in 0..m : f[k] = e[k]
        BY <3>3
      <4>2. DOMAIN f = 0..m /\ DOMAIN e = 0..m
        OBVIOUS
      <4>3. f = [k \in 0..m |-> f[k]] /\ e = [k \in 0..m |-> e[k]]
        OBVIOUS
      <4>4. f = e
        <5> HIDE DEF e, f
        <5> QED BY <4>1, <4>3
      <4> QED BY <4>4 DEF Loop
    <3> QED BY <2>1, <3>4
  <2> QED BY <2>2, <2>3
<1>2. n \notin T
  BY <1>1
<1> QED BY <1>2

LEMMA AddLoop ==
  ASSUME NEW h, NEW rows, rows.n \in Nat
  PROVE  LET AddNil(hh, s) == AppendTo(hh, s, Null)
         IN  \E g : Loop(0, h, rows.p, rows.n, g) /\ EachRow(h, rows, AddNil) = g[rows.n]
<1> DEFINE AddNil(hh, s) == AppendTo(hh, s, Null)
           F(g) == g = [k \in 0..rows.n |->
                          IF k = 0 THEN h
                          ELSE LET r == AddNil(g[k - 1], g[k - 1][rows.p][k]) IN [r.heap EXCEPT ![rows.p][k] = r.slice]]
           e == CHOOSE g : F(g)
<1>1. EachRow(h, rows, AddNil) = e[rows.n]
  BY DEF EachRow
<1>2. \A g : F(g) <=> Loop(0, h, rows.p, rows.n, g)
  BY DEF Loop, LoopStep, RowOp
<1>3. \E g : F(g)
  BY <1>2, LoopExists
<1>4. F(e)
  <2> HIDE DEF F
  <2> QED BY <1>3
<1>5. Loop(0, h, rows.p, rows.n, e)
  <2> HIDE DEF F, e
  <2> QED BY <1>2, <1>4
<1> HIDE DEF e, F
<1> QED BY <1>1, <1>5

LEMMA DropLoop ==
  ASSUME NEW h, NEW rows, rows.n \in Nat, NEW i \in Nat \ {0}
  PROVE  LET CutRow(hh, s) == IF i <= s.n THEN Cut(hh, s, i) ELSE [heap |-> hh, slice |-> s]
         IN  \E g : Loop(i, h, rows.p, rows.n, g) /\ EachRow(h, rows, CutRow) = g[rows.n]
<1> DEFINE CutRow(hh, s) == IF i <= s.n THEN Cut(hh, s, i) ELSE [heap |-> hh, slice |-> s]
           F(g) == g = [k \in 0..rows.n |->
                          IF k = 0 THEN h
                          ELSE LET r == CutRow(g[k - 1], g[k - 1][rows.p][k]) IN [r.heap EXCEPT ![rows.p][k] = r.slice]]
           e == CHOOSE g : F(g)
<1>1. EachRow(h, rows, CutRow) = e[rows.n]
  BY DEF EachRow
<1>2. \A g : F(g) <=> Loop(i, h, rows.p, rows.n, g)
  BY DEF Loop, LoopStep, RowOp
<1>3. \E g : F(g)
  BY <1>2, LoopExists
<1>4. F(e)
  <2> HIDE DEF F
  <2> QED BY <1>3
<1>5. Loop(i, h, rows.p, rows.n, e)
  <2> HIDE DEF F, e
  <2> QED BY <1>2, <1>4
<1> HIDE DEF e, F
<1> QED BY <1>1, <1>5

RowDone(i, z)  == IF i = 0 THEN Append(z, Null) ELSE Store!Without(z, i)
WidthDone(i, w) == IF i = 0 THEN w + 1 ELSE w - 1

LEMMA RowOpIs ==
  ASSUME InMemAssumption, NEW h \in Heap, NEW s, Good(h, s), NEW i \in 0..s.n
  PROVE  LET out == RowOp(i, h, s) IN
         /\ Keeps(h, out.heap, {s.p})
         /\ Good(out.heap, out.slice) /\ out.slice.n = WidthDone(i, s.n)
         /\ out.slice.p = s.p \/ Fresh(h, out.slice.p)
         /\ Items(out.heap, out.slice) = RowDone(i, Items(h, s))
<1>1. s.n \in Nat
  BY GoodIs
<1>2. CASE i = 0
  <2>1. Null \in Cell
    BY DEF Cell, Datum
  <2> QED BY <1>2, <2>1, AppendToIs DEF RowOp, RowDone, WidthDone
<1>3. CASE i # 0
  <2>1. i \in 1..s.n /\ i <= s.n
    BY <1>1, <1>3
  <2>2. RowOp(i, h, s) = Cut(h, s, i)
    BY <1>3, <2>1 DEF RowOp
  <2>3. [p |-> s.p, n |-> s.n - 1].n = s.n - 1 /\ [p |-> s.p, n |-> s.n - 1].p = s.p
    OBVIOUS
  <2> QED BY ZenonT(40), <1>3, <2>1, <2>2, <2>3, CutIs, CutItems DEF RowDone, WidthDone
<1> QED BY <1>2, <1>3

(* the slices of rows that array p holds, before the loop *)
RowsOK(h, p, n, w) ==
  /\ p \in 1..Len(h) /\ n \in Nat /\ n <= Len(h[p])
  /\ \A k \in 1..n : Good(h, h[p][k]) /\ h[p][k].n = w /\ h[p][k].p # p
  /\ \A j, k \in 1..n : h[p][j].p = h[p][k].p => j = k

(* the first k rows are done, in arrays of theirs; the others are as they were *)
LoopInv(i, h, p, n, w, k, g) ==
  /\ g \in Heap /\ Len(h) <= Len(g) /\ Len(g[p]) = Len(h[p])
  /\ \A j \in (k + 1)..n : g[p][j] = h[p][j]
  /\ \A q \in 1..Len(h) : q # p /\ (\A j \in 1..k : q # h[p][j].p) => g[q] = h[q]
  /\ \A j \in 1..k : /\ Good(g, g[p][j]) /\ g[p][j].n = WidthDone(i, w)
                     /\ g[p][j].p = h[p][j].p \/ Fresh(h, g[p][j].p)
                     /\ Items(g, g[p][j]) = RowDone(i, Items(h, h[p][j]))
  /\ \A j, l \in 1..k : g[p][j].p = g[p][l].p => j = l

LEMMA LoopKeeps ==
  ASSUME InMemAssumption, NEW h \in Heap, NEW p, NEW n, NEW w, RowsOK(h, p, n, w), NEW i \in 0..w, w \in Nat,
         NEW k \in 1..n, NEW g, LoopInv(i, h, p, n, w, k - 1, g)
  PROVE  LoopInv(i, h, p, n, w, k, LoopStep(i, p, k, g))
<1> DEFINE s == h[p][k]
           out == RowOp(i, g, s)
           o == out.heap
           c == out.slice
           f == [o EXCEPT ![p][k] = c]
<1>1. /\ p \in 1..Len(h) /\ n \in Nat /\ n <= Len(h[p]) /\ k \in 1..n /\ k - 1 \in Nat /\ k \in (k - 1 + 1)..n
      /\ Len(h) \in Nat /\ Len(g) \in Nat /\ Len(h) <= Len(g) /\ p \in 1..Len(g) /\ Len(h[p]) \in Nat /\ k \in 1..Len(h[p])
  BY HeapIs DEF RowsOK, LoopInv
<1>2. /\ Good(h, s) /\ s.n = w /\ s.p # p /\ s.p \in 1..Len(h) /\ s.p \in 1..Len(g)
  <2>1. Good(h, s) /\ s.n = w /\ s.p # p
    BY DEF RowsOK
  <2> HIDE DEF s
  <2> QED BY <1>1, <2>1, GoodIs
<1>3. g \in Heap /\ g[p][k] = s /\ g[s.p] = h[s.p]
  <2>1. ASSUME NEW j \in 1..(k - 1) PROVE s.p # h[p][j].p
    <3> DEFINE a == h[p]
    <3>1. \A l, m \in 1..n : a[l].p = a[m].p => l = m
      BY DEF RowsOK
    <3>2. j \in 1..n /\ k \in 1..n /\ k # j
      BY <1>1
    <3> HIDE DEF a
    <3>3. a[k].p # a[j].p
      BY <3>1, <3>2
    <3> QED
      BY <3>3 DEF a
  <2> QED BY <1>1, <1>2, <2>1 DEF LoopInv
<1>4. Good(g, s) /\ Items(g, s) = Items(h, s)
  BY <1>1, <1>2, <1>3 DEF Good, Items
<1>5. /\ o \in Heap /\ Len(g) <= Len(o) /\ (\A q \in 1..Len(g) : q # s.p => o[q] = g[q])
      /\ Good(o, c) /\ c.n = WidthDone(i, w) /\ (c.p = s.p \/ Fresh(g, c.p))
      /\ Items(o, c) = RowDone(i, Items(h, s))
  <2> HIDE DEF s
  <2> QED BY <1>2, <1>3, <1>4, RowOpIs DEF Keeps
<1>6. LoopStep(i, p, k, g) = f
  BY <1>3 DEF LoopStep
<1>7. Len(o) \in Nat /\ c \in Cell /\ c.p # p /\ o[p] = g[p] /\ p \in 1..Len(o) /\ c.p \in 1..Len(o)
  <2> HIDE DEF o, c, s
  <2>1. o[p] = g[p] /\ c \in Cell /\ c.p \in 1..Len(o) /\ Len(o) \in Nat
    BY <1>1, <1>2, <1>5, GoodIs, HeapIs
  <2> QED BY <1>1, <1>2, <1>5, <2>1 DEF Fresh
<1> HIDE DEF o, c, s
<1>8. /\ f \in Heap /\ Len(f) = Len(o) /\ (\A q \in 1..Len(o) : q # p => f[q] = o[q])
      /\ Len(f[p]) = Len(h[p]) /\ f[p][k] = c /\ (\A j \in 1..Len(h[p]) : j # k => f[p][j] = g[p][j])
  <2> DEFINE a == [o[p] EXCEPT ![k] = c]
  <2>1. o[p] \in Seq(Cell) /\ Len(o[p]) = Len(h[p])
    BY <1>3, <1>5, <1>7, HeapIs DEF LoopInv
  <2>2. /\ a \in Seq(Cell) /\ Len(a) = Len(h[p]) /\ a[k] = c
        /\ \A j \in 1..Len(h[p]) : j # k => a[j] = g[p][j]
    BY SMTT(30), <1>1, <1>7, <2>1, ExceptSeq
  <2>3. f = [o EXCEPT ![p] = a]
    OBVIOUS
  <2> HIDE DEF a, f
  <2>4. f \in Heap /\ Len(f) = Len(o) /\ f[p] = a /\ \A q \in 1..Len(o) : q # p => f[q] = o[q]
    BY <1>5, <1>7, <2>2, <2>3, ExceptSeq DEF Heap
  <2> QED BY <2>2, <2>4
<1> HIDE DEF f
<1>9. Good(f, c) /\ Items(f, c) = RowDone(i, Items(h, s))
  BY <1>5, <1>7, <1>8 DEF Good, Items
<1>10. c.p = s.p \/ Fresh(h, c.p)
  BY <1>1, <1>5, <1>7 DEF Fresh
(* the rows done before *)
<1>11. ASSUME NEW j \in 1..(k - 1)
       PROVE  /\ f[p][j] = g[p][j] /\ Good(f, g[p][j]) /\ g[p][j].n = WidthDone(i, w)
              /\ g[p][j].p = h[p][j].p \/ Fresh(h, g[p][j].p)
              /\ Items(f, g[p][j]) = RowDone(i, Items(h, h[p][j]))
              /\ g[p][j].p # c.p
  <2> DEFINE d == g[p][j]
  <2>1. /\ Good(g, d) /\ d.n = WidthDone(i, w) /\ (d.p = h[p][j].p \/ Fresh(h, d.p))
        /\ Items(g, d) = RowDone(i, Items(h, h[p][j]))
    BY DEF LoopInv
  <2>2. j \in 1..n /\ j # k /\ j \in 1..Len(h[p])
    BY <1>1
  <2>3. h[p][j].p # p /\ h[p][j].p # s.p /\ f[p][j] = d
    BY <1>1, <1>8, <2>2 DEF RowsOK, s
  <2> HIDE DEF d
  <2>4. d.p \in 1..Len(g)
    BY <1>3, <2>1, GoodIs
  <2>5. d.p # p /\ d.p # s.p
    BY SMTT(30), <1>1, <1>2, <2>1, <2>3, <2>4 DEF Fresh
  <2>6. d.p \in 1..Len(o) /\ f[d.p] = g[d.p]
    BY SMTT(30), <1>1, <1>5, <1>7, <1>8, <2>4, <2>5
  <2>7. Good(f, d) /\ Items(f, d) = Items(g, d)
    BY <1>7, <1>8, <2>1, <2>6 DEF Good, Items
  <2>8. d.p # c.p
    BY <1>1, <1>5, <1>7, <2>4, <2>5 DEF Fresh
  <2> QED BY <2>1, <2>3, <2>7, <2>8 DEF d
<1>12. \A j \in 1..k : j \in 1..(k - 1) \/ j = k
  BY <1>1
<1>13. Len(h) <= Len(f) /\ \A j \in (k + 1)..n : f[p][j] = h[p][j]
  <2>1. ASSUME NEW j \in (k + 1)..n PROVE f[p][j] = h[p][j]
    <3>1. j \in (k - 1 + 1)..n /\ j \in 1..Len(h[p]) /\ j # k
      BY <1>1
    <3> QED BY <1>8, <3>1 DEF LoopInv
  <2> QED BY <1>1, <1>5, <1>7, <1>8, <2>1
<1>14. ASSUME NEW q \in 1..Len(h), q # p, \A j \in 1..k : q # h[p][j].p PROVE f[q] = h[q]
  <2>1. q \in 1..Len(g) /\ q # s.p /\ q \in 1..Len(o)
    BY <1>1, <1>5, <1>7, <1>14 DEF s
  <2>2. g[q] = h[q]
    BY <1>1, <1>14 DEF LoopInv
  <2> QED BY <1>5, <1>8, <1>14, <2>1, <2>2
<1>15. ASSUME NEW j \in 1..k
       PROVE  /\ Good(f, f[p][j]) /\ f[p][j].n = WidthDone(i, w)
              /\ f[p][j].p = h[p][j].p \/ Fresh(h, f[p][j].p)
              /\ Items(f, f[p][j]) = RowDone(i, Items(h, h[p][j]))
  <2>1. CASE j = k
    BY <1>5, <1>8, <1>9, <1>10, <2>1 DEF s
  <2>2. CASE j \in 1..(k - 1)
    BY <1>11, <2>2
  <2> QED BY <1>12, <2>1, <2>2
<1>16. ASSUME NEW j \in 1..k, NEW l \in 1..k, f[p][j].p = f[p][l].p PROVE j = l
  <2>1. CASE j \in 1..(k - 1) /\ l \in 1..(k - 1)
    BY <1>11, <1>16, <2>1 DEF LoopInv
  <2>2. CASE j = k /\ l \in 1..(k - 1)
    BY <1>8, <1>11, <1>16, <2>2
  <2>3. CASE l = k /\ j \in 1..(k - 1)
    BY <1>8, <1>11, <1>16, <2>3
  <2> QED BY <1>12, <2>1, <2>2, <2>3
<1> QED BY <1>6, <1>8, <1>13, <1>14, <1>15, <1>16 DEF LoopInv

LEMMA LoopIs ==
  ASSUME InMemAssumption, NEW h \in Heap, NEW p, NEW n, NEW w, RowsOK(h, p, n, w), NEW i \in 0..w, w \in Nat,
         NEW g, Loop(i, h, p, n, g)
  PROVE  LoopInv(i, h, p, n, w, n, g[n])
<1> DEFINE T == {k \in 0..n : ~LoopInv(i, h, p, n, w, k, g[k])}
<1>1. n \in Nat
  BY DEF RowsOK
<1>2. ASSUME T # {} PROVE FALSE
  <2>1. T \subseteq Nat
    BY <1>1
  <2>2. PICK k \in T : \A y \in T : k <= y
    BY <1>2, <2>1, LeastNumber
  <2>3. CASE k = 0
    <3>1. g[0] = h
      BY <1>1 DEF Loop
    <3>2. LoopInv(i, h, p, n, w, 0, h)
      BY HeapIs DEF LoopInv
    <3> QED BY <2>2, <2>3, <3>1, <3>2
  <2>4. CASE k # 0
    <3>1. k \in 1..n /\ k - 1 \in 0..n /\ k - 1 < k
      BY <1>1, <2>2, <2>4
    <3>2. LoopInv(i, h, p, n, w, k - 1, g[k - 1])
      BY <2>2, <3>1
    <3>3. g[k] = LoopStep(i, p, k, g[k - 1])
      BY <2>4, <3>1 DEF Loop
    <3>4. LoopInv(i, h, p, n, w, k, g[k])
      BY <3>1, <3>2, <3>3, LoopKeeps
    <3> QED BY <2>2, <3>4
  <2> QED BY <2>3, <2>4
<1> QED BY <1>1, <1>2

-----------------------------------------------------------------------------
(* DELETE: the places of the rows kept *)

UpTo(K, k)  == {j \in K : j <= k}
Place(K, i) == CHOOSE k \in K : Cardinality(UpTo(K, k)) = i

LEMMA PlacesAre ==
  ASSUME NEW n \in Nat, NEW K \in SUBSET (1..n)
  PROVE  /\ Cardinality(K) \in Nat
         /\ \A i \in 1..Cardinality(K) : Place(K, i) \in K /\ Cardinality(UpTo(K, Place(K, i))) = i
<1>1. IsFiniteSet(1..n)
  BY FS_Interval
<1>2. \A S : S \subseteq K => IsFiniteSet(S) /\ Cardinality(S) \in Nat
  BY <1>1, FS_Subset, FS_CardinalityType
<1>3. ASSUME NEW i \in 1..Cardinality(K) PROVE \E k \in K : Cardinality(UpTo(K, k)) = i
  <2> DEFINE T == {k \in 0..n : i <= Cardinality(UpTo(K, k))}
  <2>0. \A k : UpTo(K, k) \subseteq K /\ IsFiniteSet(UpTo(K, k)) /\ Cardinality(UpTo(K, k)) \in Nat
    BY <1>2 DEF UpTo
  <2>1. UpTo(K, n) = K /\ UpTo(K, 0) = {}
    <3>1. \A j \in K : j <= n /\ ~(j <= 0)
      OBVIOUS
    <3> QED BY <3>1 DEF UpTo
  <2>2. n \in T /\ T \subseteq Nat
    BY <2>1, <1>2
  <2>3. PICK k \in T : \A y \in T : k <= y
    BY <2>2, LeastNumber
  <2>4. k # 0
    BY <2>1, <2>3, <1>2, FS_EmptySet
  <2>5. k - 1 \in 0..n /\ k - 1 \notin T
    BY <2>2, <2>3, <2>4
  <2>6. Cardinality(UpTo(K, k - 1)) < i
    BY <2>0, <2>5, <1>2
  <2>7. CASE k \in K
    <3>0. \A j \in K : j <= k <=> j <= k - 1 \/ j = k
      BY <2>3
    <3>1. UpTo(K, k) = UpTo(K, k - 1) \cup {k} /\ k \notin UpTo(K, k - 1)
      <4>1. ~(k <= k - 1)
        BY <2>3
      <4>2. \A j : j \in UpTo(K, k) <=> j \in UpTo(K, k - 1) \/ j = k
        BY <2>3, <2>7, <3>0 DEF UpTo
      <4> QED BY <4>1, <4>2 DEF UpTo
    <3>2. Cardinality(UpTo(K, k)) = Cardinality(UpTo(K, k - 1)) + 1
      BY <2>0, <3>1, FS_AddElement
    <3> QED BY <1>2, <2>0, <2>3, <2>6, <2>7, <3>2
  <2>8. CASE k \notin K
    <3>0. \A j \in K : j <= k <=> j <= k - 1
      BY <2>3, <2>8
    <3>1. UpTo(K, k) = UpTo(K, k - 1)
      BY <3>0 DEF UpTo
    <3> QED BY <1>2, <2>0, <2>3, <2>6, <3>1
  <2> QED BY <2>7, <2>8
<1>4. Cardinality(K) \in Nat
  BY <1>2
<1> QED BY <1>3, <1>4 DEF Place

LEMMA PickedIs ==
  ASSUME NEW n \in Nat, NEW K \in SUBSET (1..n), NEW s
  PROVE  LET m == Cardinality(K) IN
         /\ m \in Nat /\ Store!Picked(s, K) = Picked(s, K)
         /\ Picked(s, K) = [i \in 1..m |-> s[Places(K, m)[i]]]
         /\ Places(K, m) \in [1..m -> K]
         /\ \A i, j \in 1..m : Places(K, m)[i] = Places(K, m)[j] => i = j
<1> DEFINE m == Cardinality(K)
           Up(f) == \A i, j \in 1..m : i < j => f[i] < f[j]
           at == Places(K, m)
           f0 == [i \in 1..m |-> Place(K, i)]
<1>1. \A k \in K : k \in Nat
  OBVIOUS
<1>2. m \in Nat /\ f0 \in [1..m -> K] /\ \A i \in 1..m : Cardinality(UpTo(K, f0[i])) = i
  BY PlacesAre
<1>3. Up(f0)
  <2> HIDE DEF m, f0
  <2> SUFFICES ASSUME NEW i \in 1..m, NEW j \in 1..m, i < j, ~(f0[i] < f0[j]) PROVE FALSE
    OBVIOUS
  <2>1. f0[i] \in Nat /\ f0[j] \in Nat
    BY <1>1, <1>2
  <2>2. \A k \in K : k <= f0[j] => k <= f0[i]
    BY <1>1, <2>1
  <2>3. UpTo(K, f0[j]) \subseteq UpTo(K, f0[i])
    BY <2>2 DEF UpTo
  <2>4. IsFiniteSet(UpTo(K, f0[i]))
    <3>1. IsFiniteSet(1..n)
      BY FS_Interval
    <3>2. UpTo(K, f0[i]) \in SUBSET (1..n)
      BY DEF UpTo
    <3> QED BY <3>1, <3>2, FS_Subset
  <2>5. Cardinality(UpTo(K, f0[j])) <= Cardinality(UpTo(K, f0[i]))
    BY <2>3, <2>4, FS_Subset
  <2> QED BY <1>2, <2>5
<1>4. at \in [1..m -> K] /\ Up(at)
  <2>1. at = CHOOSE f \in [1..m -> K] : Up(f)
    BY DEF Places
  <2> HIDE DEF m, f0, Up, at
  <2> QED BY <1>2, <1>3, <2>1
<1>5. Picked(s, K) = [i \in 1..m |-> s[at[i]]]
  BY DEF Picked
<1>6. Store!Picked(s, K) = Picked(s, K)
  <2>1. ASSUME NEW S PROVE Store!Cardinality(S) = Cardinality(S)
    BY Zenon DEF Cardinality, Store!Cardinality
  <2>2. Store!Places(K, m) = Places(K, m)
    BY DEF Places, Store!Places
  <2>3. Store!Cardinality(K) = m
    BY <2>1
  <2>4. Store!Picked(s, K) = [i \in 1..m |-> s[Store!Places(K, m)[i]]]
    <3> HIDE DEF m
    <3> QED BY <2>3 DEF Store!Picked
  <2> QED BY <1>5, <2>2, <2>4
<1>7. ASSUME NEW i \in 1..m, NEW j \in 1..m, at[i] = at[j] PROVE i = j
  <2> HIDE DEF m, at
  <2>1. at[i] \in Nat /\ at[j] \in Nat
    BY <1>1, <1>4
  <2> QED BY <1>2, <1>4, <1>7, <2>1
<1> QED BY <1>2, <1>4, <1>5, <1>6, <1>7

-----------------------------------------------------------------------------
(* A statement that writes one table: in its own arrays, W of them, and in *)
(* fresh ones, which are its own too when it is done.                      *)

Content == [t \in DOMAIN tables |-> View(heap, tables[t])]

Changed(t, W) ==
  /\ t \in DOMAIN tables
  /\ Keeps(heap, heap', W) /\ W \subseteq Arrays(heap, tables[t])
  /\ tables' = [tables EXCEPT ![t] = tables'[t]] /\ order' = order
  /\ TableOK(heap', tables'[t])
  /\ \A p \in Arrays(heap', tables'[t]) : p \in Arrays(heap, tables[t]) \/ Fresh(heap, p)
  /\ tables'[t].rows.p = tables[t].rows.p \/ Fresh(heap, tables'[t].rows.p)

LEMMA ChangedOthers ==
  ASSUME HeapInv, NEW t, NEW W, Changed(t, W)
  PROVE  /\ heap' \in Heap /\ Len(heap) \in Nat /\ Len(heap') \in Nat /\ Len(heap) <= Len(heap')
         /\ DOMAIN tables' = DOMAIN tables /\ tables' = [u \in DOMAIN tables |-> tables'[u]]
         /\ \A u \in DOMAIN tables : u # t =>
              /\ tables'[u] = tables[u] /\ TableOK(heap', tables'[u])
              /\ Arrays(heap', tables'[u]) = Arrays(heap, tables[u])
              /\ View(heap', tables'[u]) = View(heap, tables[u])
         /\ order.p \in 1..Len(heap) /\ heap'[order.p] = heap[order.p]
<1>1. heap' \in Heap /\ heap \in Heap /\ Len(heap) <= Len(heap') /\ t \in DOMAIN tables
      /\ \A p \in 1..Len(heap) : p \notin W => heap'[p] = heap[p]
  BY DEF Changed, Keeps, HeapInv
<1>2. Len(heap) \in Nat /\ Len(heap') \in Nat
  BY <1>1, HeapIs
<1>3. DOMAIN tables' = DOMAIN tables /\ \A u \in DOMAIN tables : u # t => tables'[u] = tables[u]
  <2> DEFINE y == tables'[t]
  <2>1. tables' = [tables EXCEPT ![t] = y]
    BY DEF Changed
  <2> HIDE DEF y
  <2> QED BY <2>1
<1>4. tables' = [u \in DOMAIN tables |-> tables'[u]]
  BY <1>3, <1>1 DEF Changed, HeapInv
<1>5. ASSUME NEW u \in DOMAIN tables, u # t
      PROVE  /\ TableOK(heap', tables[u]) /\ Arrays(heap', tables[u]) = Arrays(heap, tables[u])
             /\ View(heap', tables[u]) = View(heap, tables[u])
  <2>1. TableOK(heap, tables[u])
    BY DEF HeapInv
  <2>2. Arrays(heap, tables[u]) \subseteq 1..Len(heap)
    BY <1>1, <2>1, TableIs
  <2>3. Arrays(heap, tables[t]) \cap Arrays(heap, tables[u]) = {}
    BY <1>1, <1>5 DEF HeapInv, Apart
  <2>4. \A p \in Arrays(heap, tables[u]) : heap'[p] = heap[p]
    BY <1>1, <2>2, <2>3 DEF Changed
  <2> QED BY <1>1, <2>1, <2>4, TableKept
<1>6. order.p \in 1..Len(heap) /\ heap'[order.p] = heap[order.p]
  <2>1. order.p \in 1..Len(heap)
    BY <1>1, GoodIs DEF HeapInv
  <2>2. order.p \notin W
    BY <1>1 DEF HeapInv, Apart, Changed
  <2> QED BY <1>1, <2>1, <2>2
<1> QED BY <1>1, <1>2, <1>3, <1>4, <1>5, <1>6

LEMMA ChangedHeap ==
  ASSUME HeapInv, OrderInv, NEW t, NEW W, Changed(t, W)
  PROVE  HeapInv' /\ OrderInv'
<1> USE ChangedOthers
<1>1. TableOK(heap', tables'[t]) /\ order' = order /\ t \in DOMAIN tables
  BY DEF Changed
<1>2. \A u \in DOMAIN tables' : TableOK(heap', tables'[u])
  BY <1>1
<1>3. Good(heap', order')
  BY <1>1 DEF Good, HeapInv, Slice
<1>4. \A u \in DOMAIN tables : Arrays(heap, tables[u]) \subseteq 1..Len(heap)
  BY TableIs DEF HeapInv
<1>5. ASSUME NEW u \in DOMAIN tables, u # t
      PROVE  Arrays(heap', tables'[t]) \cap Arrays(heap', tables'[u]) = {}
  <2>1. Arrays(heap, tables[t]) \cap Arrays(heap, tables[u]) = {}
    BY <1>1, <1>5 DEF HeapInv, Apart
  <2>2. \A p \in Arrays(heap, tables[u]) : ~Fresh(heap, p)
    BY <1>4 DEF Fresh
  <2> QED BY <1>5, <2>1, <2>2 DEF Changed
<1>6. order.p \notin Arrays(heap', tables'[t])
  BY <1>1 DEF Changed, HeapInv, Apart, Fresh
<1>7. Apart'
  <2>1. ASSUME NEW u \in DOMAIN tables, NEW v \in DOMAIN tables, u # v
        PROVE  Arrays(heap', tables'[u]) \cap Arrays(heap', tables'[v]) = {}
    <3>1. CASE u = t \/ v = t
      BY <1>5, <2>1, <3>1
    <3>2. CASE u # t /\ v # t
      BY <2>1, <3>2 DEF HeapInv, Apart
    <3> QED BY <3>1, <3>2
  <2>2. \A u \in DOMAIN tables : order'.p \notin Arrays(heap', tables'[u])
    BY <1>1, <1>6 DEF HeapInv, Apart
  <2> QED BY <2>1, <2>2 DEF Apart
<1>8. HeapInv'
  BY <1>2, <1>3, <1>7 DEF HeapInv
<1>9. OrderInv'
  <2>1. heap'[order'.p] = heap[order.p] /\ order'.n = order.n /\ DOMAIN tables' = DOMAIN tables
    BY <1>1
  <2> QED BY ONLY <2>1, OrderInv DEF OrderInv
<1> QED BY <1>8, <1>9

LEMMA ChangedPrivate ==
  ASSUME HeapInv, NEW t, NEW W, Changed(t, W), NEW p, NEW u, Private(p, u)
  PROVE  Private(p, u)'
<1> USE ChangedOthers
<1>1. p \in 1..Len(heap') /\ p # order'.p /\ ~Fresh(heap, p)
  BY DEF Private, Changed, Fresh
<1>2. ASSUME NEW v \in DOMAIN tables', p \in Arrays(heap', tables'[v]) PROVE v = u /\ p # tables'[v].rows.p
  <2>1. CASE v # t
    BY <1>2, <2>1 DEF Private
  <2>2. CASE v = t
    BY <1>1, <1>2, <2>2 DEF Private, Changed
  <2> QED BY <2>1, <2>2
<1> QED BY <1>1, <1>2 DEF Private

LEMMA ChangedContent ==
  ASSUME HeapInv, NEW t, NEW W, Changed(t, W)
  PROVE  Content' = Store!WithTable(Content, t, View(heap', tables'[t]))
<1>1. t \in DOMAIN tables
  BY DEF Changed
<1>2. Content' = [u \in DOMAIN tables |-> View(heap', tables'[u])]
  BY ChangedOthers DEF Content
<1>3. DOMAIN Content \cup {t} = DOMAIN tables
  BY <1>1 DEF Content
<1>4. \A u \in DOMAIN tables : u # t => View(heap', tables'[u]) = Content[u]
  BY ChangedOthers DEF Content
<1> QED BY <1>2, <1>3, <1>4 DEF Store!WithTable

(* no reader is disturbed that is not said to be *)
LEMMA ChangedReaders ==
  ASSUME HeapInv, OrderInv, ReaderInv, NEW t, NEW W, Changed(t, W),
         (W = {tables[t].rows.p} /\ reader' = reader) \/ Disturb(t)
  PROVE  ReaderInv'
<1> USE ChangedOthers
<1>1. DOMAIN reader' = Reader
  BY DEF ReaderInv, Disturb
<1>2. ASSUME NEW r \in Reader
      PROVE  \/ reader'[r] = reader[r] /\ ~(reader[r].at = "rows" /\ reader[r].table = t /\ W # {tables[t].rows.p})
             \/ reader[r].at = "rows" /\ reader'[r] = [reader[r] EXCEPT !.disturbed = TRUE]
  BY DEF Disturb
<1>3. \A p \in 1..Len(heap) : p \notin W => heap'[p] = heap[p]
  BY DEF Changed, Keeps
<1>4. ASSUME NEW r \in Reader PROVE ReaderOK(r)'
  <2> DEFINE q == reader[r]
  <2>0. ReaderOK(r)
    BY DEF ReaderInv
  <2>1. CASE q.at = "rows" /\ reader'[r] = [q EXCEPT !.disturbed = TRUE]
    <3>1. reader'[r] = [at |-> "rows", table |-> q.table, cols |-> q.cols, rows |-> q.rows, snap |-> q.snap, disturbed |-> TRUE]
      BY <2>0, <2>1 DEF ReaderOK
    <3> QED BY <3>1 DEF ReaderOK
  <2>2. CASE q.at = "rows" /\ ~q.disturbed /\ reader'[r] = q /\ ~(q.table = t /\ W # {tables[t].rows.p})
    <3>1. Private(q.cols.p, q.table) /\ \A k \in DOMAIN q.rows : Private(q.rows[k].p, q.table)
      BY <2>0, <2>2 DEF ReaderOK
    <3>2. ASSUME NEW p, Private(p, q.table) PROVE heap'[p] = heap[p]
      <4>1. p \notin W
        BY <2>2, <3>2 DEF Changed, Private
      <4> QED BY <1>3, <3>2, <4>1 DEF Private
    <3>3. heap'[q.cols.p] = heap[q.cols.p] /\ \A k \in DOMAIN q.rows : heap'[q.rows[k].p] = heap[q.rows[k].p]
      BY <3>1, <3>2
    <3>4. Held(r)' = Held(r)
      <4>1. RowsOf(heap', q.rows) = RowsOf(heap, q.rows)
        BY <3>3 DEF RowsOf, Items
      <4>2. Items(heap', q.cols) = Items(heap, q.cols)
        BY <3>3 DEF Items
      <4> QED BY <2>2, <4>1, <4>2 DEF Held
    <3>5. Private(q.cols.p, q.table)' /\ \A k \in DOMAIN q.rows : Private(q.rows[k].p, q.table)'
      BY <3>1, ChangedPrivate, <2>2
    <3> QED BY <2>0, <2>2, <3>4, <3>5 DEF ReaderOK
  <2>3. CASE q.at = "rows" /\ q.disturbed /\ reader'[r] = q
    BY <2>0, <2>3 DEF ReaderOK
  <2>4. CASE q.at # "rows"
    <3>1. reader'[r] = q /\ order' = order
      BY <1>2, <2>4 DEF Changed
    <3> QED BY <2>0, <2>4, <3>1 DEF ReaderOK
  <2> QED BY <1>2, <2>1, <2>2, <2>3, <2>4
<1> QED BY <1>1, <1>4 DEF ReaderInv

-----------------------------------------------------------------------------
(* The statements, one by one *)

LEMMA TableNow ==
  ASSUME HeapInv, NEW t \in DOMAIN tables
  PROVE  /\ heap \in Heap /\ TableOK(heap, tables[t])
         /\ Content[t] = View(heap, tables[t])
         /\ tables[t] = [cols |-> tables[t].cols, rows |-> tables[t].rows]
         /\ \A v : [tables EXCEPT ![t].rows = v] = [tables EXCEPT ![t] = [cols |-> tables[t].cols, rows |-> v]]
         /\ \A v : [tables EXCEPT ![t].cols = v] = [tables EXCEPT ![t] = [cols |-> v, rows |-> tables[t].rows]]
<1>1. heap \in Heap /\ TableOK(heap, tables[t]) /\ Content[t] = View(heap, tables[t])
  BY DEF HeapInv, Content
<1>2. tables[t] = [cols |-> tables[t].cols, rows |-> tables[t].rows]
  BY <1>1 DEF TableOK
<1>3. ASSUME NEW v PROVE [tables[t] EXCEPT !.rows = v] = [cols |-> tables[t].cols, rows |-> v]
  BY <1>2
<1>4. ASSUME NEW v PROVE [tables[t] EXCEPT !.cols = v] = [cols |-> v, rows |-> tables[t].rows]
  BY <1>2
<1> QED BY <1>1, <1>2, <1>3, <1>4

LEMMA InsertIs ==
  ASSUME InMemAssumption, HeapInv, NEW t \in DOMAIN tables, Insert(t)
  PROVE  /\ Changed(t, {tables[t].rows.p}) /\ reader' = reader
         /\ \E row \in [1..Len(Content[t].cols) -> Datum] :
              View(heap', tables'[t]) = [cols |-> Content[t].cols, rows |-> Append(Content[t].rows, row)]
<1> DEFINE x == tables[t]
           n == x.rows.n
<1>1. heap \in Heap /\ TableOK(heap, x) /\ Content[t] = View(heap, x)
  BY TableNow
<1>2. PICK vals \in [1..Width(t) -> Datum] :
        LET full == Alloc(heap, vals)
            out  == AppendTo(full.heap, x.rows, full.slice)
        IN  heap' = out.heap /\ tables' = [tables EXCEPT ![t].rows = out.slice]
  BY DEF Insert, Wrote
<1> DEFINE h1 == Alloc(heap, vals).heap
           s1 == Alloc(heap, vals).slice
           out == AppendTo(h1, x.rows, s1)
           g == out.heap
           y == [cols |-> x.cols, rows |-> out.slice]
<1>3. heap' = g /\ tables' = [tables EXCEPT ![t] = y] /\ tables'[t] = y /\ order' = order /\ reader' = reader
  <2> DEFINE c == out.slice
  <2>1. heap' = g /\ tables' = [tables EXCEPT ![t].rows = c] /\ order' = order /\ reader' = reader
    BY <1>2 DEF Insert
  <2> HIDE DEF c
  <2>2. tables' = [tables EXCEPT ![t] = [cols |-> x.cols, rows |-> c]]
    BY <2>1, TableNow
  <2>3. tables'[t] = [cols |-> x.cols, rows |-> c]
    BY <2>2
  <2> QED BY <2>1, <2>2, <2>3 DEF c
<1>4. y = [cols |-> y.cols, rows |-> y.rows] /\ y.cols = x.cols /\ y.rows = out.slice
  OBVIOUS
<1>5. Width(t) = x.cols.n
  BY DEF Width
<1> HIDE DEF x, y
<1>6. /\ n \in Nat /\ x.cols.n \in Nat /\ x.rows.p \in 1..Len(heap) /\ x.cols.p \in 1..Len(heap)
      /\ n <= Len(heap[x.rows.p]) /\ RowsNo(x) = 1..n /\ Len(heap) \in Nat
      /\ \A k \in 1..n : Good(heap, Row(heap, x, k)) /\ Row(heap, x, k).p \in 1..Len(heap)
  BY <1>1, TableIs, HeapIs DEF RowsNo
<1>7. vals \in Seq(Cell) /\ Len(vals) = x.cols.n
  <2> DEFINE m == x.cols.n
  <2>1. \A i \in 1..m : vals[i] \in Cell
    BY <1>2, <1>5 DEF Cell
  <2>2. vals = [i \in 1..m |-> vals[i]] /\ m \in Nat
    BY <1>2, <1>6, <1>5
  <2> HIDE DEF m
  <2>3. vals \in Seq(Cell) /\ Len(vals) = m
    BY <2>1, <2>2, FnSeq
  <2> QED BY <2>3 DEF m
<1>8. /\ h1 \in Heap /\ Len(h1) = Len(heap) + 1 /\ (\A p \in 1..Len(heap) : h1[p] = heap[p])
      /\ s1 = [p |-> Len(heap) + 1, n |-> x.cols.n] /\ Good(h1, s1) /\ h1[Len(heap) + 1] = vals
  BY <1>1, <1>7, AllocIs DEF Keeps
<1> HIDE DEF h1, s1
<1>9. Good(h1, x.rows) /\ s1 \in Cell /\ x.rows.p \in 1..Len(h1)
  <2>1. Good(heap, x.rows)
    BY <1>1 DEF TableOK
  <2>2. Good(h1, x.rows) /\ x.rows.p \in 1..Len(h1)
    BY <1>6, <1>8, <2>1 DEF Good
  <2> QED BY <1>8, <2>2, GoodIs
<1>10. /\ g \in Heap /\ Len(h1) <= Len(g) /\ (\A p \in 1..Len(h1) : p # x.rows.p => g[p] = h1[p])
       /\ Good(g, out.slice) /\ out.slice.n = n + 1 /\ (out.slice.p = x.rows.p \/ Fresh(h1, out.slice.p))
       /\ Items(g, out.slice) = Append(Items(h1, x.rows), s1)
  <2>1. /\ Keeps(h1, g, {x.rows.p})
        /\ Good(g, out.slice) /\ out.slice.n = n + 1 /\ (out.slice.p = x.rows.p \/ Fresh(h1, out.slice.p))
        /\ Items(g, out.slice) = Append(Items(h1, x.rows), s1)
    BY ZenonT(40), <1>8, <1>9, AppendToIs
  <2> QED BY <2>1 DEF Keeps
<1> HIDE DEF out
<1>11. /\ (\A k \in 1..n : Row(g, y, k) = Row(heap, x, k)) /\ Row(g, y, n + 1) = s1
  <2> DEFINE z == Items(h1, x.rows)
  <2>1. z \in Seq(Cell) /\ Len(z) = n /\ \A k \in 1..n : z[k] = Row(heap, x, k)
    <3>1. z \in Seq(Cell) /\ Len(z) = n /\ \A k \in 1..n : z[k] = h1[x.rows.p][k]
      BY <1>8, <1>9, ItemsAre
    <3> QED BY <1>6, <1>8, <3>1 DEF Row
  <2>2. \A k \in 1..(n + 1) : Row(g, y, k) = Items(g, out.slice)[k]
    <3> DEFINE c == out.slice
    <3>1. \A k \in 1..c.n : Items(g, c)[k] = g[c.p][k]
      BY <1>10, ItemsAre
    <3> QED BY <1>4, <1>10, <3>1 DEF Row
  <2> HIDE DEF z
  <2>3. \A k \in 1..n : Append(z, s1)[k] = z[k]
    BY <1>9, <2>1, AppendProperties
  <2>4. Append(z, s1)[n + 1] = s1
    BY <1>9, <2>1, AppendProperties
  <2>5. n + 1 \in 1..(n + 1) /\ \A k \in 1..n : k \in 1..(n + 1)
    BY <1>6
  <2> QED BY <1>10, <2>1, <2>2, <2>3, <2>4, <2>5 DEF z
<1>12. \A p \in 1..Len(heap) : p # x.rows.p => g[p] = heap[p]
  BY <1>6, <1>8, <1>10
<1>13. g[Len(heap) + 1] = vals /\ Len(heap) + 1 <= Len(g) /\ Len(g) \in Nat /\ x.rows.p # Len(heap) + 1
  BY SMTT(30), <1>6, <1>8, <1>10, HeapIs
<1>14. \A s : Good(heap, s) /\ s.p # x.rows.p => Good(g, s) /\ Items(g, s) = Items(heap, s)
  <2> SUFFICES ASSUME NEW s, Good(heap, s), s.p # x.rows.p PROVE Good(g, s) /\ Items(g, s) = Items(heap, s)
    OBVIOUS
  <2>1. s.p \in 1..Len(heap) /\ g[s.p] = heap[s.p]
    BY <1>1, <1>12, GoodIs
  <2> QED BY <1>6, <1>13, <2>1 DEF Good, Items
<1>15. Good(g, s1) /\ Items(g, s1) = vals
  <2>1. Good(g, s1)
    BY <1>7, <1>8, <1>13, <1>6 DEF Good
  <2> QED BY SMTT(30), <1>7, <1>8, <1>10, <1>13, <2>1, ItemsSame
<1>16. RowsNo(y) = 1..(n + 1) /\ \A k \in RowsNo(y) : k \in 1..n \/ k = n + 1
  <2>1. y.rows.n = n + 1
    BY <1>4, <1>10
  <2> QED BY <1>6, <2>1 DEF RowsNo
<1>17. /\ \A k \in 1..n : /\ Good(g, Row(heap, x, k)) /\ Row(heap, x, k).n = x.cols.n
                          /\ Row(heap, x, k).p # out.slice.p /\ Row(heap, x, k).p # x.cols.p /\ Row(heap, x, k).p # s1.p
                          /\ Items(g, Row(heap, x, k)) = Items(heap, Row(heap, x, k))
       /\ x.cols.p # out.slice.p /\ s1.p # out.slice.p /\ s1.p # x.cols.p
       /\ Good(g, x.cols) /\ Items(g, x.cols) = Items(heap, x.cols)
  <2>1. \A k \in 1..n : Row(heap, x, k).p # x.rows.p /\ Row(heap, x, k).p # x.cols.p /\ Row(heap, x, k).n = x.cols.n
    BY <1>1, <1>6 DEF TableOK
  <2>2. x.cols.p # x.rows.p /\ Good(heap, x.cols)
    BY <1>1 DEF TableOK
  <2>3. x.cols.p \in 1..Len(heap) /\ s1.p = Len(heap) + 1 /\ out.slice.p \in Nat
        /\ (out.slice.p = x.rows.p \/ out.slice.p > Len(heap) + 1)
    <3>1. out.slice.p \in Nat
      BY <1>10, GoodIs
    <3>2. s1.p = Len(heap) + 1 /\ x.cols.p \in 1..Len(heap)
      BY <1>6, <1>8
    <3>3. out.slice.p = x.rows.p \/ out.slice.p > Len(heap) + 1
      BY <1>8, <1>10 DEF Fresh
    <3> QED BY <3>1, <3>2, <3>3
  <2>4. ASSUME NEW p \in 1..Len(heap), p # x.rows.p PROVE p # s1.p /\ p # out.slice.p
    BY <1>6, <2>3, <2>4
  <2>5. x.cols.p # out.slice.p /\ s1.p # out.slice.p /\ s1.p # x.cols.p
    BY <1>6, <2>2, <2>3, <2>4
  <2>6. \A k \in 1..n : Row(heap, x, k).p # out.slice.p /\ Row(heap, x, k).p # s1.p
    BY <1>6, <2>1, <2>4
  <2>7. Good(g, x.cols) /\ Items(g, x.cols) = Items(heap, x.cols)
    BY <1>14, <2>2
  <2>8. \A k \in 1..n : Good(g, Row(heap, x, k)) /\ Items(g, Row(heap, x, k)) = Items(heap, Row(heap, x, k))
    BY <1>6, <1>14, <2>1
  <2> QED BY <2>1, <2>5, <2>6, <2>7, <2>8
<1>18. TableOK(g, y)
  <2>1. \A k \in RowsNo(y) : /\ Good(g, Row(g, y, k)) /\ Row(g, y, k).n = x.cols.n
                             /\ Row(g, y, k).p \notin {x.cols.p, out.slice.p}
    BY <1>8, <1>11, <1>15, <1>16, <1>17
  <2>2. ASSUME NEW j \in RowsNo(y), NEW k \in RowsNo(y), Row(g, y, j).p = Row(g, y, k).p PROVE j = k
    <3>1. CASE j \in 1..n /\ k \in 1..n
      BY <1>1, <1>6, <1>11, <2>2, <3>1 DEF TableOK
    <3>2. CASE ~(j \in 1..n /\ k \in 1..n)
      BY <1>11, <1>16, <1>17, <2>2, <3>2
    <3> QED BY <3>1, <3>2
  <2> QED BY <1>4, <1>10, <1>17, <2>1, <2>2 DEF TableOK
<1>19. Changed(t, {x.rows.p})
  <2>1. Keeps(heap, g, {x.rows.p})
    BY <1>6, <1>8, <1>10, <1>12, <1>13 DEF Keeps
  <2>2. \A p \in Arrays(g, y) : p \in Arrays(heap, x) \/ Fresh(heap, p)
    <3>1. Fresh(heap, s1.p) /\ (out.slice.p = x.rows.p \/ Fresh(heap, out.slice.p))
      <4>1. Len(heap) + 1 > Len(heap) /\ \A p : p > Len(h1) /\ p \in Nat => p > Len(heap)
        BY <1>6, <1>8
      <4>2. out.slice.p \in Nat /\ s1.p = Len(heap) + 1
        BY <1>8, <1>10, GoodIs
      <4> QED BY <1>10, <4>1, <4>2 DEF Fresh
    <3>2. \A k \in RowsNo(y) : (k \in RowsNo(x) /\ Row(g, y, k) = Row(heap, x, k)) \/ Row(g, y, k) = s1
      BY <1>6, <1>11, <1>16
    <3> QED BY <1>4, <3>1, <3>2 DEF Arrays
  <2>3. {x.rows.p} \subseteq Arrays(heap, x) /\ (y.rows.p = x.rows.p \/ Fresh(heap, y.rows.p))
    <3>1. x.rows.p \in Arrays(heap, x)
      BY DEF Arrays
    <3>2. out.slice.p = x.rows.p \/ Fresh(heap, out.slice.p)
      <4>1. \A p \in Nat : p > Len(h1) => p > Len(heap)
        BY <1>6, <1>8
      <4>2. out.slice.p \in Nat
        BY <1>10, GoodIs
      <4> QED BY <1>10, <4>1, <4>2 DEF Fresh
    <3> QED BY <1>4, <3>1, <3>2
  <2> HIDE DEF g
  <2> QED BY <1>3, <1>18, <2>1, <2>2, <2>3 DEF Changed, x
<1>20. View(g, y) = [cols |-> Content[t].cols, rows |-> Append(Content[t].rows, vals)]
  <2>1. View(g, y) = [cols |-> Items(heap, x.cols), rows |-> Shown(g, y)] /\ Shown(g, y) \in Seq(Seq(Cell)) /\ Len(Shown(g, y)) = n + 1
    BY <1>4, <1>10, <1>17, <1>18, TableIs
  <2>2. View(heap, x) = [cols |-> Items(heap, x.cols), rows |-> Shown(heap, x)] /\ Shown(heap, x) \in Seq(Seq(Cell)) /\ Len(Shown(heap, x)) = n
    BY <1>1, TableIs
  <2> DEFINE z == Shown(heap, x)
             a == Append(z, vals)
  <2>3. a \in Seq(Seq(Cell)) /\ Len(a) = n + 1 /\ (\A k \in 1..n : a[k] = z[k]) /\ a[n + 1] = vals
    <3> HIDE DEF z
    <3> DEFINE S == Seq(Cell)
    <3>1. z \in Seq(S) /\ vals \in S
      BY <1>7, <2>2 DEF z
    <3> HIDE DEF S
    <3>2. a \in Seq(S) /\ Len(a) = Len(z) + 1 /\ (\A k \in 1..Len(z) : a[k] = z[k]) /\ a[Len(z) + 1] = vals
      BY <3>1, AppendProperties
    <3> QED BY <2>2, <3>2 DEF S, z
  <2>4. \A k \in 1..(n + 1) : Shown(g, y)[k] = a[k]
    <3>1. \A k \in RowsNo(y) : Shown(g, y)[k] = Items(g, Row(g, y, k))
      BY DEF Shown
    <3>2. \A k \in 1..n : z[k] = Items(heap, Row(heap, x, k))
      BY <1>6 DEF Shown
    <3> HIDE DEF z, a
    <3> QED BY <1>11, <1>15, <1>16, <1>17, <2>3, <3>1, <3>2
  <2>5. Shown(g, y) = a
    <3> HIDE DEF a
    <3> DEFINE S == Seq(Cell)
               b == Shown(g, y)
    <3>1. a \in Seq(S) /\ b \in Seq(S) /\ Len(a) = n + 1 /\ Len(b) = n + 1 /\ \A k \in 1..(n + 1) : b[k] = a[k]
      BY <2>1, <2>3, <2>4
    <3> HIDE DEF S, b
    <3>2. b = a
      BY <3>1, SeqEqual
    <3> QED BY <3>2 DEF b
  <2> QED BY <1>1, <2>1, <2>2, <2>5
<1>21. Len(Content[t].cols) = Width(t)
  <2>1. Content[t].cols = Items(heap, x.cols) /\ Good(heap, x.cols)
    BY <1>1, TableIs DEF TableOK
  <2> QED BY <1>1, <1>5, <2>1, ItemsAre
<1> HIDE DEF g
<1> QED BY <1>3, <1>19, <1>20, <1>21 DEF x

LEMMA DeleteIs ==
  ASSUME InMemAssumption, HeapInv, NEW t \in DOMAIN tables, Delete(t)
  PROVE  /\ Changed(t, {tables[t].rows.p}) /\ reader' = reader
         /\ \E i \in 1..Len(Content[t].cols), v \in Value :
              LET rows == Content[t].rows
              IN  View(heap', tables'[t]) =
                    [cols |-> Content[t].cols, rows |-> Store!Picked(rows, {k \in DOMAIN rows : rows[k][i] # v})]
<1> DEFINE x == tables[t]
           n == x.rows.n
           b == heap[x.rows.p]
           W(i, v) == {k \in 1..n : Items(heap, b[k])[i] # v}
<1>1. heap \in Heap /\ TableOK(heap, x) /\ Content[t] = View(heap, x)
  BY TableNow
<1>2. PICK i \in 1..Width(t), v \in Value :
        LET kept == Picked(Items(heap, x.rows), W(i, v))
        IN  /\ Len(kept) < n
            /\ heap' = [heap EXCEPT ![x.rows.p] = kept \o SubSeq(@, Len(kept) + 1, Len(@))]
            /\ tables' = [tables EXCEPT ![t].rows.n = Len(kept)]
  BY DEF Delete, Wrote
<1> DEFINE K == W(i, v)
           m == Cardinality(K)
           kept == Picked(Items(heap, x.rows), K)
           a == kept \o SubSeq(b, Len(kept) + 1, Len(b))
           g == [heap EXCEPT ![x.rows.p] = a]
           f == Places(K, m)
           y == [cols |-> x.cols, rows |-> [p |-> x.rows.p, n |-> Len(kept)]]
<1>3. heap' = g /\ tables' = [tables EXCEPT ![t] = y] /\ tables'[t] = y /\ order' = order /\ reader' = reader /\ Len(kept) < n
  <2> DEFINE c == Len(kept)
  <2>1. heap' = g /\ tables' = [tables EXCEPT ![t].rows.n = c] /\ order' = order /\ reader' = reader /\ c < n
    BY <1>2 DEF Delete
  <2> HIDE DEF c
  <2>2. x = [cols |-> x.cols, rows |-> x.rows] /\ x.rows = [p |-> x.rows.p, n |-> x.rows.n]
    BY <1>1, GoodIs DEF TableOK
  <2>3. [x EXCEPT !.rows.n = c] = [cols |-> x.cols, rows |-> [p |-> x.rows.p, n |-> c]]
    BY <2>2
  <2>4. tables' = [tables EXCEPT ![t] = [cols |-> x.cols, rows |-> [p |-> x.rows.p, n |-> c]]]
    BY <2>1, <2>3
  <2>5. tables'[t] = [cols |-> x.cols, rows |-> [p |-> x.rows.p, n |-> c]]
    BY <2>4
  <2> QED BY <2>1, <2>4, <2>5 DEF c
<1>4. y = [cols |-> y.cols, rows |-> y.rows] /\ y.cols = x.cols /\ y.rows = [p |-> x.rows.p, n |-> Len(kept)]
  OBVIOUS
<1>5. Width(t) = x.cols.n
  BY DEF Width
<1> HIDE DEF x, y, K, g
<1>6. /\ n \in Nat /\ x.cols.n \in Nat /\ x.rows.p \in 1..Len(heap) /\ x.cols.p \in 1..Len(heap)
      /\ n <= Len(b) /\ Len(b) \in Nat /\ b \in Seq(Cell) /\ RowsNo(x) = 1..n /\ Len(heap) \in Nat
      /\ \A k \in 1..n : Good(heap, b[k]) /\ b[k].p \in 1..Len(heap) /\ b[k] = Row(heap, x, k)
  BY <1>1, TableIs, HeapIs DEF RowsNo, Row
<1>7. /\ m \in Nat /\ \A s : Store!Picked(s, K) = Picked(s, K) /\ Picked(s, K) = [j \in 1..m |-> s[f[j]]]
      /\ f \in [1..m -> K] /\ \A j, k \in 1..m : f[j] = f[k] => j = k
  <2>1. K \in SUBSET (1..n)
    BY DEF K
  <2> QED BY <1>6, <2>1, PickedIs
<1>8. \A j \in 1..m : f[j] \in 1..n
  BY <1>7 DEF K
<1> HIDE DEF f, m
<1>9. kept \in Seq(Cell) /\ Len(kept) = m /\ \A j \in 1..m : kept[j] = b[f[j]]
  <2>1. kept = [j \in 1..m |-> Items(heap, x.rows)[f[j]]]
    BY <1>7
  <2>2. \A k \in 1..n : Items(heap, x.rows)[k] = b[k] /\ b[k] \in Cell
    BY SMTT(30), <1>1, <1>6, ItemsAre, HeapIs DEF TableOK
  <2>3. \A j \in 1..m : kept[j] = b[f[j]] /\ kept[j] \in Cell
    BY <1>8, <2>1, <2>2
  <2> HIDE DEF kept
  <2>4. kept = [j \in 1..m |-> kept[j]]
    BY <2>1
  <2> QED BY <1>7, <2>3, <2>4, FnSeq
<1> HIDE DEF kept
<1>10. a \in Seq(Cell) /\ Len(a) = Len(b) /\ \A j \in 1..m : a[j] = b[f[j]]
  <2> DEFINE r == SubSeq(b, m + 1, Len(b))
  <2>1. m < n
    BY <1>3, <1>9
  <2>2. r \in Seq(Cell) /\ Len(r) = Len(b) - m
    <3>1. \A j \in (m + 1)..Len(b) : b[j] \in Cell
      BY <1>6, <1>7
    <3>2. r \in Seq(Cell) /\ Len(r) = IF m + 1 <= Len(b) THEN Len(b) - (m + 1) + 1 ELSE 0
      BY <1>6, <1>7, <3>1, SubSeqProperties
    <3> HIDE DEF r
    <3> QED BY <1>6, <1>7, <2>1, <3>2
  <2>3. a = kept \o r
    BY <1>9
  <2> HIDE DEF a, r
  <2>4. /\ a \in Seq(Cell) /\ Len(a) = Len(kept) + Len(r)
        /\ \A j \in 1..(Len(kept) + Len(r)) : a[j] = IF j <= Len(kept) THEN kept[j] ELSE r[j - Len(kept)]
    BY ZenonT(40), <1>9, <2>2, <2>3, ConcatProperties
  <2>5. \A j \in 1..m : j \in 1..(Len(kept) + Len(r)) /\ j <= Len(kept)
    BY SMTT(30), <1>6, <1>7, <1>9, <2>1, <2>2
  <2>6. Len(a) = Len(b)
    BY <1>6, <1>7, <1>9, <2>2, <2>4
  <2> QED BY <1>9, <2>4, <2>5, <2>6
<1> HIDE DEF a
<1>11. g \in Heap /\ Len(g) = Len(heap) /\ g[x.rows.p] = a /\ \A p \in 1..Len(heap) : p # x.rows.p => g[p] = heap[p]
  BY <1>1, <1>6, <1>10, ExceptSeq DEF Heap, g
<1>12. RowsNo(y) = 1..m /\ \A k \in 1..m : Row(g, y, k) = b[f[k]]
  BY <1>4, <1>9, <1>10, <1>11 DEF RowsNo, Row
<1>13. \A s : Good(heap, s) /\ s.p # x.rows.p => Good(g, s) /\ Items(g, s) = Items(heap, s)
  <2> SUFFICES ASSUME NEW s, Good(heap, s), s.p # x.rows.p PROVE Good(g, s) /\ Items(g, s) = Items(heap, s)
    OBVIOUS
  <2>1. s.p \in 1..Len(heap) /\ g[s.p] = heap[s.p]
    BY <1>1, <1>11, GoodIs
  <2> QED BY <1>6, <1>11, <2>1 DEF Good, Items
<1>14. \A k \in 1..n : b[k].n = x.cols.n /\ b[k].p # x.cols.p /\ b[k].p # x.rows.p
  BY <1>1, <1>6 DEF TableOK
<1>15. Good(heap, x.cols) /\ x.cols.p # x.rows.p
  BY <1>1 DEF TableOK
<1>16. TableOK(g, y)
  <2>1. Good(g, y.cols) /\ y.cols.p # y.rows.p
    BY <1>4, <1>13, <1>15
  <2>2. Good(g, y.rows)
    <3>1. y.rows.p = x.rows.p /\ y.rows.n = m /\ m <= Len(a) /\ x.rows.p <= Len(g)
      BY SMTT(30), <1>3, <1>4, <1>6, <1>7, <1>9, <1>10, <1>11
    <3>2. y.rows \in Slice
      BY SMTT(30), <1>4, <1>6, <1>7, <1>9 DEF Slice
    <3> QED BY <1>11, <3>1, <3>2 DEF Good
  <2>3. \A k \in RowsNo(y) : /\ Good(g, Row(g, y, k)) /\ Row(g, y, k).n = y.cols.n
                             /\ Row(g, y, k).p \notin {y.cols.p, y.rows.p}
    <3> SUFFICES ASSUME NEW k \in RowsNo(y)
                 PROVE  /\ Good(g, Row(g, y, k)) /\ Row(g, y, k).n = y.cols.n
                        /\ Row(g, y, k).p \notin {y.cols.p, y.rows.p}
      OBVIOUS
    <3>1. f[k] \in 1..n /\ Row(g, y, k) = b[f[k]]
      BY <1>8, <1>12
    <3> DEFINE c == b[f[k]]
    <3>2. Good(heap, c) /\ c.n = x.cols.n /\ c.p # x.cols.p /\ c.p # x.rows.p
      BY <1>6, <1>14, <3>1
    <3>3. y.cols = x.cols /\ y.rows.p = x.rows.p
      BY <1>4
    <3> HIDE DEF c
    <3>4. Good(g, c)
      BY <1>13, <3>2
    <3>5. Row(g, y, k) = c
      BY <3>1 DEF c
    <3> QED BY <3>2, <3>3, <3>4, <3>5
  <2>4. \A j, k \in RowsNo(y) : Row(g, y, j).p = Row(g, y, k).p => j = k
    <3>1. \A j, k \in 1..n : b[j].p = b[k].p => j = k
      <4>1. \A j, k \in RowsNo(x) : Row(heap, x, j).p = Row(heap, x, k).p => j = k
        BY <1>1 DEF TableOK
      <4>2. ASSUME NEW j \in 1..n, NEW k \in 1..n, b[j].p = b[k].p PROVE j = k
        <5>1. j \in RowsNo(x) /\ k \in RowsNo(x) /\ b[j] = Row(heap, x, j) /\ b[k] = Row(heap, x, k)
          BY <1>6
        <5> QED BY <4>1, <4>2, <5>1
      <4> QED BY <4>2
    <3>2. ASSUME NEW j \in RowsNo(y), NEW k \in RowsNo(y), Row(g, y, j).p = Row(g, y, k).p PROVE j = k
      <4>1. j \in 1..m /\ k \in 1..m /\ f[j] \in 1..n /\ f[k] \in 1..n /\ b[f[j]].p = b[f[k]].p
        BY <1>8, <1>12, <3>2
      <4>2. f[j] = f[k]
        BY <3>1, <4>1
      <4> QED BY <1>7, <4>1, <4>2
    <3> QED BY <3>2
  <2> QED BY <1>4, <2>1, <2>2, <2>3, <2>4 DEF TableOK
<1>17. Changed(t, {x.rows.p})
  <2>1. Keeps(heap, g, {x.rows.p})
    BY <1>6, <1>11 DEF Keeps
  <2>2. \A p \in Arrays(g, y) : p \in Arrays(heap, x)
    <3>1. \A k \in RowsNo(y) : f[k] \in RowsNo(x) /\ Row(g, y, k) = Row(heap, x, f[k])
      BY <1>6, <1>8, <1>12
    <3>2. y.rows.p = x.rows.p
      BY <1>4
    <3> QED BY <1>4, <3>1, <3>2 DEF Arrays
  <2>3. {x.rows.p} \subseteq Arrays(heap, x) /\ y.rows.p = x.rows.p
    BY <1>4 DEF Arrays
  <2> QED BY <1>3, <1>16, <2>1, <2>2, <2>3 DEF Changed, x
<1>18. Content[t].cols = Items(heap, x.cols) /\ Content[t].rows = Shown(heap, x) /\ DOMAIN Shown(heap, x) = 1..n
       /\ \A k \in 1..n : Shown(heap, x)[k] = Items(heap, b[k])
  <2>1. View(heap, x) = [cols |-> Items(heap, x.cols), rows |-> Shown(heap, x)]
    BY <1>1, TableIs
  <2>2. DOMAIN Shown(heap, x) = RowsNo(x) /\ \A k \in RowsNo(x) : Shown(heap, x)[k] = Items(heap, Row(heap, x, k))
    BY DEF Shown
  <2> QED BY SMTT(30), <1>1, <1>6, <2>1, <2>2
<1>19. View(g, y) = [cols |-> Content[t].cols,
                     rows |-> Store!Picked(Content[t].rows, {k \in DOMAIN Content[t].rows : Content[t].rows[k][i] # v})]
  <2>1. View(g, y) = [cols |-> Items(g, y.cols), rows |-> Shown(g, y)]
    BY <1>11, <1>16, TableIs
  <2>2. Items(g, y.cols) = Content[t].cols
    BY <1>4, <1>13, <1>15, <1>18
  <2>3. {k \in DOMAIN Content[t].rows : Content[t].rows[k][i] # v} = K
    BY <1>18 DEF K
  <2>4. Store!Picked(Shown(heap, x), K) = [j \in 1..m |-> Shown(heap, x)[f[j]]]
    BY <1>7
  <2>5. \A k \in 1..m : Items(g, Row(g, y, k)) = Shown(heap, x)[f[k]]
    BY SMTT(30), <1>6, <1>8, <1>12, <1>13, <1>14, <1>18
  <2>6. Shown(g, y) = [j \in 1..m |-> Shown(heap, x)[f[j]]]
    BY <1>12, <2>5 DEF Shown
  <2> QED BY <1>18, <2>1, <2>2, <2>3, <2>4, <2>6
<1>20. Len(Content[t].cols) = Width(t)
  BY <1>1, <1>5, <1>15, <1>18, ItemsAre
<1> QED BY <1>3, <1>17, <1>19, <1>20 DEF x

UpdatedRows(rows, i, v, j, w) ==
  [k \in DOMAIN rows |-> IF rows[k][i] = v THEN [rows[k] EXCEPT ![j] = w] ELSE rows[k]]

LEMMA UpdateIs ==
  ASSUME InMemAssumption, HeapInv, NEW t \in DOMAIN tables, Update(t)
  PROVE  /\ \E W : Changed(t, W)
         /\ Disturb(t)
         /\ \E i, j \in 1..Len(Content[t].cols), v \in Value, w \in Datum :
              View(heap', tables'[t]) = [cols |-> Content[t].cols, rows |-> UpdatedRows(Content[t].rows, i, v, j, w)]
<1> DEFINE x == tables[t]
           n == x.rows.n
           b == heap[x.rows.p]
           Hit(i, v) == {b[k].p : k \in {k \in 1..n : Items(heap, b[k])[i] = v}}
           After(j, w, hit) == [p \in DOMAIN heap |-> IF p \in hit THEN [heap[p] EXCEPT ![j] = w] ELSE heap[p]]
<1>1. heap \in Heap /\ TableOK(heap, x) /\ Content[t] = View(heap, x) /\ tables = [tables EXCEPT ![t] = tables[t]]
  BY TableNow DEF HeapInv
<1>2. PICK i \in 1..Width(t), j \in 1..Width(t), v \in Value, w \in Datum : heap' = After(j, w, Hit(i, v))
  <2>1. PICK i \in 1..Width(t), j \in 1..Width(t), v \in Value, w \in Datum :
          LET hit == {heap[tables[t].rows.p][k].p : k \in
                        {k \in 1..tables[t].rows.n : Items(heap, heap[tables[t].rows.p][k])[i] = v}}
          IN  Wrote([p \in DOMAIN heap |-> IF p \in hit THEN [heap[p] EXCEPT ![j] = w] ELSE heap[p]])
    BY ZenonT(40) DEF Update
  <2>2. heap' = After(j, w, Hit(i, v))
    BY <2>1 DEF Wrote
  <2> HIDE DEF After, Hit
  <2> QED BY <2>2
<1> DEFINE hit == Hit(i, v)
           g == After(j, w, hit)
           z == Shown(heap, x)
           new == [k \in DOMAIN z |-> IF z[k][i] = v THEN [z[k] EXCEPT ![j] = w] ELSE z[k]]
<1>3. heap' = g /\ tables' = tables /\ order' = order /\ Disturb(t)
  BY <1>2 DEF Update
<1>4. Width(t) = x.cols.n
  BY DEF Width
<1>5. w \in Cell
  BY DEF Cell
<1> HIDE DEF x
<1>6. /\ n \in Nat /\ x.cols.n \in Nat /\ x.rows.p \in 1..Len(heap) /\ x.cols.p \in 1..Len(heap)
      /\ RowsNo(x) = 1..n /\ Len(heap) \in Nat /\ DOMAIN heap = 1..Len(heap)
      /\ \A k \in 1..n : Good(heap, b[k]) /\ b[k].p \in 1..Len(heap) /\ b[k] = Row(heap, x, k)
  BY <1>1, TableIs, HeapIs DEF RowsNo, Row
<1>7. \A k \in 1..n : b[k].n = x.cols.n /\ b[k].p # x.cols.p /\ b[k].p # x.rows.p
  BY SMTT(30), <1>1, <1>6 DEF TableOK
<1>8. ASSUME NEW k \in 1..n, NEW l \in 1..n, b[k].p = b[l].p PROVE k = l
  <2>1. k \in RowsNo(x) /\ l \in RowsNo(x) /\ b[k] = Row(heap, x, k) /\ b[l] = Row(heap, x, l)
    BY <1>6
  <2> QED BY <1>1, <1>8, <2>1 DEF TableOK
<1>9. \A k \in 1..n : b[k].p \in hit <=> Items(heap, b[k])[i] = v
  BY <1>8
<1>10. hit \subseteq {b[k].p : k \in 1..n} /\ x.rows.p \notin hit /\ x.cols.p \notin hit
  BY <1>7
<1> HIDE DEF hit
<1>11. ASSUME NEW p \in 1..Len(heap)
       PROVE  g[p] = IF p \in hit THEN [heap[p] EXCEPT ![j] = w] ELSE heap[p]
  BY <1>6
<1>12. ASSUME NEW p \in 1..Len(heap), p \in hit
       PROVE  j \in 1..Len(heap[p]) /\ heap[p] \in Seq(Cell)
  <2>1. PICK k \in 1..n : p = b[k].p
    BY <1>10, <1>12
  <2>2. x.cols.n <= Len(heap[p])
    BY <1>6, <1>7, <2>1 DEF Good
  <2> QED BY <1>1, <1>2, <1>4, <1>6, <2>2, HeapIs
<1>13. ASSUME NEW p \in 1..Len(heap)
       PROVE  g[p] \in Seq(Cell) /\ Len(g[p]) = Len(heap[p])
  <2>1. CASE p \in hit
    BY <1>5, <1>11, <1>12, <2>1, ExceptSeq
  <2>2. CASE p \notin hit
    BY <1>1, <1>11, <2>2, HeapIs
  <2> QED BY <2>1, <2>2
<1>14. g \in Heap /\ Len(g) = Len(heap)
  <2> DEFINE S == Seq(Cell)
             m == Len(heap)
  <2>1. g = [p \in 1..m |-> g[p]] /\ (\A p \in 1..m : g[p] \in S) /\ m \in Nat
    BY <1>6, <1>13
  <2> HIDE DEF S, m, g
  <2>2. g \in Seq(S) /\ Len(g) = m
    BY <2>1, FnSeq
  <2> QED BY <2>2 DEF Heap, S, m
<1> HIDE DEF g
<1>15. g[x.rows.p] = b /\ g[x.cols.p] = heap[x.cols.p]
  BY <1>6, <1>10, <1>11
<1>16. \A k \in 1..n : Row(g, x, k) = b[k]
  BY <1>15 DEF Row
<1>17. \A s : Good(heap, s) => Good(g, s)
  <2> SUFFICES ASSUME NEW s, Good(heap, s) PROVE Good(g, s)
    OBVIOUS
  <2>1. s.p \in 1..Len(heap)
    BY <1>1, GoodIs
  <2> QED BY <1>13, <1>14, <2>1 DEF Good
<1>18. TableOK(g, x) /\ Arrays(g, x) = Arrays(heap, x)
  <2>1. \A k \in RowsNo(x) : Row(g, x, k) = Row(heap, x, k)
    BY <1>6, <1>16
  <2> QED BY <1>1, <1>17, <2>1 DEF TableOK, Arrays
<1>19. Changed(t, hit)
  <2>1. Keeps(heap, g, hit)
    <3>1. \A p \in 1..Len(heap) : p \notin hit => g[p] = heap[p]
      BY <1>11
    <3>2. Len(heap) <= Len(g)
      BY <1>6, <1>14
    <3> QED BY <1>14, <3>1, <3>2 DEF Keeps
  <2>2. hit \subseteq Arrays(heap, x)
    BY <1>6, <1>10 DEF Arrays
  <2> QED BY <1>1, <1>3, <1>18, <2>1, <2>2 DEF Changed, x
<1>20. ASSUME NEW k \in 1..n
       PROVE  Items(g, b[k]) = IF Items(heap, b[k])[i] = v THEN [Items(heap, b[k]) EXCEPT ![j] = w] ELSE Items(heap, b[k])
  <2> DEFINE c == b[k]
             q == Items(heap, c)
  <2>1. Good(heap, c) /\ c.n = x.cols.n /\ c.p \in 1..Len(heap) /\ (c.p \in hit <=> q[i] = v)
    BY <1>6, <1>7, <1>9
  <2> HIDE DEF c
  <2>2. q \in Seq(Cell) /\ Len(q) = c.n /\ \A l \in 1..c.n : q[l] = heap[c.p][l]
    BY <1>1, <2>1, ItemsAre
  <2>3. c.n \in Nat /\ c.n <= Len(heap[c.p]) /\ Len(heap[c.p]) \in Nat
    BY <1>1, <2>1, GoodIs
  <2>4. CASE q[i] = v
    <3> DEFINE e == [q EXCEPT ![j] = w]
    <3>1. j \in 1..Len(q)
      BY <1>4, <2>1, <2>2
    <3> HIDE DEF q
    <3>2. e \in Seq(Cell) /\ Len(e) = c.n /\ \A l \in 1..c.n : e[l] = IF l = j THEN w ELSE q[l]
      BY <1>5, <2>2, <3>1, ExceptSeq
    <3>3. j \in 1..Len(heap[c.p]) /\ heap[c.p] \in Seq(Cell) /\ g[c.p] = [heap[c.p] EXCEPT ![j] = w]
      BY <1>11, <1>12, <2>1, <2>4
    <3>4. \A l \in 1..Len(heap[c.p]) : g[c.p][l] = IF l = j THEN w ELSE heap[c.p][l]
      BY <1>5, <3>3, ExceptSeq
    <3> HIDE DEF e
    <3>5. \A l \in 1..c.n : e[l] = g[c.p][l]
      BY <2>2, <2>3, <3>2, <3>4
    <3>6. Items(g, c) = e
      BY <1>14, <1>17, <2>1, <3>2, <3>5, ItemsSame
    <3> QED BY <2>4, <3>6 DEF e, q, c
  <2>5. CASE q[i] # v
    <3>1. g[c.p] = heap[c.p]
      BY <1>11, <2>1, <2>5
    <3>2. Items(g, c) = q
      BY <3>1 DEF Items
    <3> QED BY <2>5, <3>2 DEF c
  <2> QED BY <2>4, <2>5
<1>21. /\ Content[t].cols = Items(heap, x.cols) /\ Content[t].rows = z /\ DOMAIN z = 1..n
       /\ \A k \in 1..n : z[k] = Items(heap, b[k])
  <2>1. View(heap, x) = [cols |-> Items(heap, x.cols), rows |-> z]
    BY <1>1, TableIs
  <2>2. DOMAIN z = RowsNo(x) /\ \A k \in RowsNo(x) : z[k] = Items(heap, Row(heap, x, k))
    BY DEF Shown
  <2> QED BY <1>1, <1>6, <2>1, <2>2
<1>22. View(g, x) = [cols |-> Content[t].cols, rows |-> new]
  <2>1. View(g, x) = [cols |-> Items(g, x.cols), rows |-> Shown(g, x)]
    BY <1>14, <1>18, TableIs
  <2>2. Items(g, x.cols) = Items(heap, x.cols)
    BY <1>15 DEF Items
  <2>3. Shown(g, x) = [k \in 1..n |-> Items(g, b[k])]
    BY <1>6, <1>16 DEF Shown
  <2>4. \A k \in 1..n : Items(g, b[k]) = new[k]
    BY <1>20, <1>21
  <2>5. Shown(g, x) = [k \in 1..n |-> new[k]]
    BY <2>3, <2>4
  <2>6. new = [k \in 1..n |-> new[k]]
    BY <1>21
  <2> QED BY <1>21, <2>1, <2>2, <2>5, <2>6
<1>23. Len(Content[t].cols) = Width(t)
  BY <1>1, <1>4, <1>21, ItemsAre DEF TableOK
<1>24. View(heap', tables'[t]) = [cols |-> Content[t].cols, rows |-> UpdatedRows(Content[t].rows, i, v, j, w)]
  BY <1>3, <1>21, <1>22 DEF x, UpdatedRows
<1> HIDE DEF new, z
<1>25. i \in 1..Len(Content[t].cols) /\ j \in 1..Len(Content[t].cols) /\ v \in Value /\ w \in Datum
  BY <1>2, <1>23
<1>26. \E W : Changed(t, W)
  BY <1>19
<1> QED BY <1>3, <1>24, <1>25, <1>26


(* t, once its columns are c in h1 and the loop over its rows goes as g *)
Altered(t, i, h1, c, g) ==
  LET x == tables[t] IN
  /\ i \in 0..x.cols.n
  /\ Keeps(heap, h1, {x.cols.p}) /\ Good(h1, c) /\ c.n = WidthDone(i, x.cols.n)
  /\ c.p = x.cols.p \/ Fresh(heap, c.p)
  /\ Loop(i, h1, x.rows.p, x.rows.n, g) /\ heap' = g[x.rows.n]
  /\ tables' = [tables EXCEPT ![t].cols = c] /\ order' = order

LEMMA AlterIs ==
  ASSUME InMemAssumption, HeapInv, NEW t \in DOMAIN tables, NEW i, NEW h1, NEW c, NEW g, Altered(t, i, h1, c, g)
  PROVE  /\ Changed(t, Arrays(heap, tables[t]))
         /\ View(heap', tables'[t]) =
              [cols |-> Items(h1, c), rows |-> [k \in DOMAIN Content[t].rows |-> RowDone(i, Content[t].rows[k])]]
<1> DEFINE x == tables[t]
           n == x.rows.n
           p == x.rows.p
           w == x.cols.n
           b == heap[p]
           y == [cols |-> c, rows |-> x.rows]
           h == g[n]
<1>1. heap \in Heap /\ TableOK(heap, x) /\ Content[t] = View(heap, x)
  BY TableNow
<1>2. tables' = [tables EXCEPT ![t] = y] /\ tables'[t] = y
  <2>1. tables' = [tables EXCEPT ![t] = y]
    BY TableNow DEF Altered
  <2> HIDE DEF y
  <2> QED BY <2>1
<1>3. /\ h1 \in Heap /\ Len(heap) <= Len(h1) /\ (\A q \in 1..Len(heap) : q # x.cols.p => h1[q] = heap[q])
      /\ Good(h1, c) /\ c.n = WidthDone(i, w) /\ (c.p = x.cols.p \/ Fresh(heap, c.p)) /\ heap' = h
      /\ Loop(i, h1, p, n, g) /\ i \in 0..w /\ order' = order
  BY DEF Keeps, Altered, h
<1>4. y = [cols |-> y.cols, rows |-> y.rows] /\ y.cols = c /\ y.rows = x.rows
  OBVIOUS
<1> HIDE DEF x, y, h
<1>5. /\ n \in Nat /\ w \in Nat /\ p \in 1..Len(heap) /\ x.cols.p \in 1..Len(heap)
      /\ n <= Len(b) /\ Len(b) \in Nat /\ RowsNo(x) = 1..n /\ Len(heap) \in Nat /\ Len(h1) \in Nat
      /\ \A k \in 1..n : Good(heap, b[k]) /\ b[k].p \in 1..Len(heap) /\ b[k] = Row(heap, x, k)
  BY <1>1, <1>3, TableIs, HeapIs DEF RowsNo, Row
<1>6. Len(heap) \in Nat /\ Len(h1) \in Nat /\ Len(heap) <= Len(h1)
  BY <1>3, <1>5
<1>7. \A k \in 1..n : b[k].n = w /\ b[k].p # x.cols.p /\ b[k].p # p
  BY <1>1, <1>5 DEF TableOK
<1>8. ASSUME NEW k \in 1..n, NEW l \in 1..n, b[k].p = b[l].p PROVE k = l
  <2>1. k \in RowsNo(x) /\ l \in RowsNo(x) /\ b[k] = Row(heap, x, k) /\ b[l] = Row(heap, x, l)
    BY <1>5
  <2> QED BY <1>1, <1>8, <2>1 DEF TableOK
<1>9. x.cols.p # p /\ c.p \in 1..Len(h1) /\ c.p # p /\ \A k \in 1..n : c.p # b[k].p
  <2>1. x.cols.p # p
    BY <1>1 DEF TableOK
  <2>2. c.p \in 1..Len(h1)
    BY <1>3, GoodIs
  <2>3. \A q \in 1..Len(heap) : q # x.cols.p => q # c.p
    BY <1>3, <1>5, <2>2 DEF Fresh
  <2>4. c.p # p /\ \A k \in 1..n : c.p # b[k].p
    BY <1>5, <1>7, <2>1, <2>3
  <2> QED BY <2>1, <2>2, <2>4
<1>10. h1[p] = b /\ \A k \in 1..n : Good(h1, b[k]) /\ Items(h1, b[k]) = Items(heap, b[k])
  <2>1. h1[p] = b
    BY <1>3, <1>5, <1>9
  <2>2. ASSUME NEW k \in 1..n PROVE Good(h1, b[k]) /\ Items(h1, b[k]) = Items(heap, b[k])
    <3> DEFINE s == b[k]
    <3>1. Good(heap, s) /\ s.p \in 1..Len(heap) /\ s.p # x.cols.p
      BY <1>5, <1>7
    <3> HIDE DEF s
    <3>2. Good(h1, s) /\ Items(h1, s) = Items(heap, s)
      <4>1. h1[s.p] = heap[s.p]
        BY <1>3, <3>1
      <4> QED BY <1>1, <1>3, <3>1, <4>1, GoodKept
    <3> QED BY <3>2 DEF s
  <2> QED BY <2>1, <2>2
<1>11. RowsOK(h1, p, n, w)
  <2>1. p \in 1..Len(h1)
    BY <1>3, <1>5
  <2>2. \A k \in 1..n : Good(h1, h1[p][k]) /\ h1[p][k].n = w /\ h1[p][k].p # p
    BY <1>7, <1>10
  <2>3. \A k, l \in 1..n : h1[p][k].p = h1[p][l].p => k = l
    BY <1>8, <1>10
  <2> QED BY <1>5, <1>10, <2>1, <2>2, <2>3 DEF RowsOK
<1>12. LoopInv(i, h1, p, n, w, n, h)
  BY <1>3, <1>5, <1>11, LoopIs DEF h
<1>13. /\ h \in Heap /\ Len(h1) <= Len(h) /\ Len(h[p]) = Len(b) /\ Len(h) \in Nat
       /\ \A q \in 1..Len(h1) : q # p /\ (\A k \in 1..n : q # b[k].p) => h[q] = h1[q]
  BY <1>10, <1>12, HeapIs DEF LoopInv
<1>14. ASSUME NEW k \in 1..n
       PROVE  /\ Good(h, h[p][k]) /\ h[p][k].n = WidthDone(i, w)
              /\ h[p][k].p = b[k].p \/ Fresh(h1, h[p][k].p)
              /\ Items(h, h[p][k]) = RowDone(i, Items(heap, b[k]))
  BY <1>10, <1>12 DEF LoopInv
<1>15. \A k, l \in 1..n : h[p][k].p = h[p][l].p => k = l
  BY <1>12 DEF LoopInv
<1>16. h[c.p] = h1[c.p] /\ Good(h, c) /\ Items(h, c) = Items(h1, c)
  <2>1. h[c.p] = h1[c.p]
    BY <1>9, <1>13
  <2> QED BY <1>3, <1>13, <2>1, GoodKept
<1>17. \A k \in 1..n : Row(h, y, k) = h[p][k]
  BY <1>4 DEF Row
<1>18. RowsNo(y) = 1..n
  BY <1>4, <1>5 DEF RowsNo
<1>19. \A k \in 1..n : h[p][k].p # c.p /\ h[p][k].p # p
  <2> SUFFICES ASSUME NEW k \in 1..n PROVE h[p][k].p # c.p /\ h[p][k].p # p
    OBVIOUS
  <2>1. b[k].p # c.p /\ b[k].p # p /\ p \in 1..Len(heap) /\ c.p \in 1..Len(h1)
    BY <1>5, <1>7, <1>9
  <2>3. p <= Len(h1) /\ c.p <= Len(h1) /\ p \in Nat /\ c.p \in Nat
    BY <1>6, <2>1
  <2>2. h[p][k].p = b[k].p \/ h[p][k].p > Len(h1)
    BY <1>14 DEF Fresh
  <2> HIDE DEF b, p
  <2> QED BY <1>6, <2>1, <2>2, <2>3
<1>20. TableOK(h, y)
  <2>1. Good(h, x.rows)
    <3>1. x.rows \in Slice
      BY <1>1 DEF TableOK, Good
    <3> QED BY <1>3, <1>5, <1>13, <3>1 DEF Good
  <2>2. Good(h, y.cols) /\ Good(h, y.rows) /\ y.cols.p # y.rows.p /\ y = [cols |-> y.cols, rows |-> y.rows]
    BY <1>4, <1>9, <1>16, <2>1
  <2>3. \A k \in RowsNo(y) : /\ Good(h, Row(h, y, k)) /\ Row(h, y, k).n = y.cols.n
                             /\ Row(h, y, k).p \notin {y.cols.p, y.rows.p}
    BY <1>3, <1>4, <1>14, <1>17, <1>18, <1>19
  <2>4. \A j, k \in RowsNo(y) : Row(h, y, j).p = Row(h, y, k).p => j = k
    BY <1>15, <1>17, <1>18
  <2> QED BY <2>2, <2>3, <2>4 DEF TableOK
<1>21. Changed(t, Arrays(heap, x))
  <2>1. Keeps(heap, h, Arrays(heap, x))
    <3>1. ASSUME NEW q \in 1..Len(heap), q \notin Arrays(heap, x) PROVE h[q] = heap[q]
      <4>1. q # x.cols.p /\ q # p /\ \A k \in 1..n : q # b[k].p
        BY <1>5, <3>1 DEF Arrays
      <4>2. q \in 1..Len(h1)
        BY <1>3, <1>5
      <4> QED BY <1>3, <1>13, <4>1, <4>2
    <3>2. Len(heap) <= Len(h)
      BY <1>3, <1>5, <1>13
    <3> QED BY <1>13, <3>1, <3>2 DEF Keeps
  <2>2. \A q \in Arrays(h, y) : q \in Arrays(heap, x) \/ Fresh(heap, q)
    <3>1. \A k \in RowsNo(y) : Row(h, y, k).p \in Arrays(heap, x) \/ Fresh(heap, Row(h, y, k).p)
      <4> SUFFICES ASSUME NEW k \in 1..n PROVE h[p][k].p \in Arrays(heap, x) \/ Fresh(heap, h[p][k].p)
        BY <1>17, <1>18
      <4>1. b[k].p \in Arrays(heap, x)
        BY <1>5 DEF Arrays
      <4>2. h[p][k].p \in Nat
        BY SMTT(30), <1>13, <1>14, GoodIs
      <4>3. h[p][k].p = b[k].p \/ h[p][k].p > Len(h1)
        BY <1>14 DEF Fresh
      <4>4. h[p][k].p > Len(h1) => h[p][k].p > Len(heap)
        BY <1>6, <4>2
      <4> QED BY <4>1, <4>3, <4>4 DEF Fresh
    <3>2. y.cols.p \in Arrays(heap, x) \/ Fresh(heap, y.cols.p)
      BY <1>3, <1>4 DEF Arrays
    <3>3. y.rows.p \in Arrays(heap, x)
      BY <1>4 DEF Arrays
    <3> QED BY <3>1, <3>2, <3>3 DEF Arrays
  <2> QED BY <1>2, <1>3, <1>4, <1>20, <2>1, <2>2 DEF Changed, x
<1>22. Content[t].rows = Shown(heap, x) /\ DOMAIN Shown(heap, x) = 1..n
       /\ \A k \in 1..n : Shown(heap, x)[k] = Items(heap, b[k])
  <2>1. View(heap, x) = [cols |-> Items(heap, x.cols), rows |-> Shown(heap, x)]
    BY <1>1, TableIs
  <2>2. DOMAIN Shown(heap, x) = RowsNo(x) /\ \A k \in RowsNo(x) : Shown(heap, x)[k] = Items(heap, Row(heap, x, k))
    BY DEF Shown
  <2> QED BY SMTT(30), <1>1, <1>5, <2>1, <2>2
<1>23. View(h, y) = [cols |-> Items(h1, c), rows |-> [k \in DOMAIN Content[t].rows |-> RowDone(i, Content[t].rows[k])]]
  <2>1. View(h, y) = [cols |-> Items(h1, c), rows |-> Shown(h, y)]
    BY <1>4, <1>13, <1>16, <1>20, TableIs
  <2>2. Shown(h, y) = [k \in 1..n |-> RowDone(i, Items(heap, b[k]))]
    BY <1>14, <1>17, <1>18 DEF Shown
  <2>3. Shown(h, y) = [k \in DOMAIN Content[t].rows |-> RowDone(i, Content[t].rows[k])]
    BY <1>22, <2>2
  <2> QED BY <2>1, <2>3
<1> QED BY <1>2, <1>3, <1>21, <1>23 DEF x

LEMMA AddColumnIs ==
  ASSUME InMemAssumption, HeapInv, NEW t \in DOMAIN tables, AddColumn(t)
  PROVE  /\ \E W : Changed(t, W)
         /\ Disturb(t)
         /\ \E c \in Column :
              View(heap', tables'[t]) = [cols |-> Append(Content[t].cols, c),
                                         rows |-> [k \in DOMAIN Content[t].rows |-> Append(Content[t].rows[k], Null)]]
<1> DEFINE x == tables[t]
           AddNil(h, s) == AppendTo(h, s, Null)
<1>1. heap \in Heap /\ TableOK(heap, x) /\ Content[t] = View(heap, x)
  BY TableNow
<1>2. PICK c \in Column : LET cols == AppendTo(heap, x.cols, c)
                          IN  /\ heap' = EachRow(cols.heap, x.rows, AddNil)
                              /\ tables' = [tables EXCEPT ![t].cols = cols.slice]
  BY DEF AddColumn, Wrote
<1>3. PICK h1, s : h1 = AppendTo(heap, x.cols, c).heap /\ s = AppendTo(heap, x.cols, c).slice
  OBVIOUS
<1>4. x.rows.n \in Nat /\ x.cols.n \in Nat /\ Good(heap, x.cols)
  BY <1>1, TableIs DEF TableOK
<1>5. heap' = EachRow(h1, x.rows, AddNil) /\ tables' = [tables EXCEPT ![t].cols = s] /\ order' = order /\ Disturb(t)
  BY <1>2, <1>3 DEF AddColumn
<1>6. /\ Keeps(heap, h1, {x.cols.p}) /\ Good(h1, s) /\ s.n = x.cols.n + 1
      /\ s.p = x.cols.p \/ Fresh(heap, s.p)
      /\ Items(h1, s) = Append(Items(heap, x.cols), c)
  <2>1. c \in Cell
    BY DEF Cell
  <2> QED BY <1>1, <1>4, <1>3, <2>1, AppendToIs
<1>7. PICK g : Loop(0, h1, x.rows.p, x.rows.n, g) /\ EachRow(h1, x.rows, AddNil) = g[x.rows.n]
  BY <1>4, AddLoop
<1>8. heap' = g[x.rows.n]
  BY <1>5, <1>7
<1>9. 0 \in 0..x.cols.n /\ s.n = WidthDone(0, x.cols.n)
  BY <1>4, <1>6 DEF WidthDone
<1>10. /\ Changed(t, Arrays(heap, x))
       /\ View(heap', tables'[t]) =
            [cols |-> Items(h1, s), rows |-> [k \in DOMAIN Content[t].rows |-> RowDone(0, Content[t].rows[k])]]
  <2>1. Altered(t, 0, h1, s, g)
    BY <1>5, <1>6, <1>7, <1>8, <1>9 DEF Altered
  <2> QED BY <2>1, AlterIs
<1>11. Content[t].cols = Items(heap, x.cols)
  BY <1>1, TableIs
<1>12. \A z : RowDone(0, z) = Append(z, Null)
  BY DEF RowDone
<1>13. View(heap', tables'[t]) = [cols |-> Append(Content[t].cols, c),
                                 rows |-> [k \in DOMAIN Content[t].rows |-> Append(Content[t].rows[k], Null)]]
  BY <1>6, <1>10, <1>11, <1>12
<1> QED BY <1>5, <1>10, <1>13

LEMMA DropColumnIs ==
  ASSUME InMemAssumption, HeapInv, NEW t \in DOMAIN tables, DropColumn(t)
  PROVE  /\ \E W : Changed(t, W)
         /\ Disturb(t)
         /\ \E i \in 1..Len(Content[t].cols) :
              View(heap', tables'[t]) = [cols |-> Store!Without(Content[t].cols, i),
                                         rows |-> [k \in DOMAIN Content[t].rows |-> Store!Without(Content[t].rows[k], i)]]
<1> DEFINE x == tables[t]
<1>1. heap \in Heap /\ TableOK(heap, x) /\ Content[t] = View(heap, x)
  BY TableNow
<1>2. PICK i \in 1..Width(t) :
        LET cols == Cut(heap, x.cols, i)
            CutRow(h, s) == IF i <= s.n THEN Cut(h, s, i) ELSE [heap |-> h, slice |-> s]
        IN  /\ heap' = EachRow(cols.heap, x.rows, CutRow)
            /\ tables' = [tables EXCEPT ![t].cols = cols.slice]
  BY DEF DropColumn, Wrote
<1>3. PICK h1, s : h1 = Cut(heap, x.cols, i).heap /\ s = Cut(heap, x.cols, i).slice
  OBVIOUS
<1> DEFINE CutRow(h, ss) == IF i <= ss.n THEN Cut(h, ss, i) ELSE [heap |-> h, slice |-> ss]
<1>4. x.rows.n \in Nat /\ x.cols.n \in Nat /\ Good(heap, x.cols) /\ i \in 1..x.cols.n
  BY <1>1, TableIs DEF TableOK, Width
<1>5. heap' = EachRow(h1, x.rows, CutRow) /\ tables' = [tables EXCEPT ![t].cols = s] /\ order' = order /\ Disturb(t)
  BY <1>2, <1>3 DEF DropColumn
<1>6. /\ Keeps(heap, h1, {x.cols.p}) /\ Good(h1, s) /\ s = [p |-> x.cols.p, n |-> x.cols.n - 1]
      /\ Items(h1, s) = Store!Without(Items(heap, x.cols), i)
  <2>1. LET out == Cut(heap, x.cols, i) IN
        Keeps(heap, out.heap, {x.cols.p}) /\ Good(out.heap, out.slice) /\ out.slice = [p |-> x.cols.p, n |-> x.cols.n - 1]
    <3> DEFINE c == x.cols
    <3>1. heap \in Heap /\ Good(heap, c) /\ i \in 1..c.n
      BY <1>1, <1>4
    <3> HIDE DEF c, x
    <3>2. LET out == Cut(heap, c, i) IN
          Keeps(heap, out.heap, {c.p}) /\ Good(out.heap, out.slice) /\ out.slice = [p |-> c.p, n |-> c.n - 1]
      BY <3>1, CutIs
    <3> QED BY <3>2 DEF c
  <2>2. LET out == Cut(heap, x.cols, i) IN Items(out.heap, out.slice) = Store!Without(Items(heap, x.cols), i)
    BY <1>1, <1>4, CutItems
  <2> QED BY <1>3, <2>1, <2>2
<1>7. PICK g : Loop(i, h1, x.rows.p, x.rows.n, g) /\ EachRow(h1, x.rows, CutRow) = g[x.rows.n]
  <2>1. i \in Nat \ {0}
    BY <1>4
  <2> QED BY <1>4, <2>1, DropLoop
<1>8. heap' = g[x.rows.n]
  BY <1>5, <1>7
<1>9. i \in 0..x.cols.n /\ i # 0 /\ s.n = WidthDone(i, x.cols.n) /\ s.p = x.cols.p
  BY <1>4, <1>6 DEF WidthDone
<1>10. /\ Changed(t, Arrays(heap, x))
       /\ View(heap', tables'[t]) =
            [cols |-> Items(h1, s), rows |-> [k \in DOMAIN Content[t].rows |-> RowDone(i, Content[t].rows[k])]]
  <2>1. Altered(t, i, h1, s, g)
    BY <1>5, <1>6, <1>7, <1>8, <1>9 DEF Altered
  <2> QED BY <2>1, AlterIs
<1>11. Content[t].cols = Items(heap, x.cols) /\ Len(Content[t].cols) = x.cols.n
  BY <1>1, <1>4, TableIs, ItemsAre
<1>12. \A z : RowDone(i, z) = Store!Without(z, i)
  BY <1>9 DEF RowDone
<1>13. View(heap', tables'[t]) = [cols |-> Store!Without(Content[t].cols, i),
                                 rows |-> [k \in DOMAIN Content[t].rows |-> Store!Without(Content[t].rows[k], i)]]
  BY <1>6, <1>10, <1>11, <1>12
<1> QED BY <1>4, <1>5, <1>10, <1>11, <1>13

-----------------------------------------------------------------------------
(* CREATE and DROP TABLE: the list of tables is written, and no array of one *)

Listed ==
  /\ Keeps(heap, heap', {order.p})
  /\ order'.p = order.p \/ Fresh(heap, order'.p)
  /\ DOMAIN tables' \subseteq Table /\ tables' = [u \in DOMAIN tables' |-> tables'[u]]
  /\ \A u \in DOMAIN tables' :
       \/ u \in DOMAIN tables /\ tables'[u] = tables[u]
       \/ u \notin DOMAIN tables /\ TableOK(heap', tables'[u]) /\ \A p \in Arrays(heap', tables'[u]) : Fresh(heap, p) /\ p # order'.p

(* one table at most is new *)
Only(t) == \A u \in DOMAIN tables' : u \in DOMAIN tables \/ u = t

LEMMA ListedTables ==
  ASSUME HeapInv, Listed, NEW u \in DOMAIN tables
  PROVE  /\ TableOK(heap', tables[u]) /\ Arrays(heap', tables[u]) = Arrays(heap, tables[u])
         /\ View(heap', tables[u]) = View(heap, tables[u])
         /\ \A p \in Arrays(heap, tables[u]) : p \in 1..Len(heap) /\ p # order.p /\ p # order'.p
<1>1. /\ heap \in Heap /\ heap' \in Heap /\ Len(heap) <= Len(heap') /\ TableOK(heap, tables[u])
      /\ \A p \in 1..Len(heap) : p # order.p => heap'[p] = heap[p]
  BY DEF HeapInv, Listed, Keeps
<1>2. \A p \in Arrays(heap, tables[u]) : p \in 1..Len(heap) /\ p # order.p
  BY <1>1, TableIs DEF HeapInv, Apart
<1>3. \A p \in Arrays(heap, tables[u]) : p # order'.p
  BY <1>1, <1>2, HeapIs DEF Listed, Fresh
<1>4. TableOK(heap', tables[u]) /\ Arrays(heap', tables[u]) = Arrays(heap, tables[u]) /\ View(heap', tables[u]) = View(heap, tables[u])
  BY <1>1, <1>2, TableKept
<1> QED BY <1>2, <1>3, <1>4

LEMMA ListedHeap ==
  ASSUME HeapInv, Listed, NEW t, Only(t), Good(heap', order')
  PROVE  HeapInv'
<1>1. \A u \in DOMAIN tables' : TableOK(heap', tables'[u])
  BY ListedTables DEF Listed
<1>2. \A u \in DOMAIN tables' : order'.p \notin Arrays(heap', tables'[u])
  BY ListedTables DEF Listed
<1>3. ASSUME NEW u \in DOMAIN tables', NEW v \in DOMAIN tables', u # v
      PROVE  Arrays(heap', tables'[u]) \cap Arrays(heap', tables'[v]) = {}
  <2>1. CASE u \in DOMAIN tables /\ v \in DOMAIN tables
    BY <1>3, <2>1, ListedTables DEF Listed, HeapInv, Apart
  <2>2. CASE u \in DOMAIN tables /\ v \notin DOMAIN tables
    <3>1. \A p \in Arrays(heap', tables'[u]) : p \in 1..Len(heap)
      BY <2>2, ListedTables DEF Listed
    <3>2. \A p \in Arrays(heap', tables'[v]) : Fresh(heap, p)
      BY <2>2 DEF Listed
    <3>3. Len(heap) \in Nat
      BY HeapIs DEF HeapInv
    <3> QED BY <3>1, <3>2, <3>3 DEF Fresh
  <2>3. CASE u \notin DOMAIN tables /\ v \in DOMAIN tables
    <3>1. \A p \in Arrays(heap', tables'[v]) : p \in 1..Len(heap)
      BY <2>3, ListedTables DEF Listed
    <3>2. \A p \in Arrays(heap', tables'[u]) : Fresh(heap, p)
      BY <2>3 DEF Listed
    <3>3. Len(heap) \in Nat
      BY HeapIs DEF HeapInv
    <3> QED BY <3>1, <3>2, <3>3 DEF Fresh
  <2> QED BY <1>3, <2>1, <2>2, <2>3 DEF Only
<1>4. Apart'
  BY <1>2, <1>3 DEF Apart
<1>5. heap' \in Heap /\ DOMAIN tables' \subseteq Table /\ tables' = [u \in DOMAIN tables' |-> tables'[u]]
  BY DEF Listed, Keeps
<1> QED BY <1>1, <1>4, <1>5 DEF HeapInv

LEMMA ListedReaders ==
  ASSUME HeapInv, ReaderInv, Listed, DisturbTables
  PROVE  ReaderInv'
<1>1. /\ heap \in Heap /\ heap' \in Heap /\ Len(heap) \in Nat /\ Len(heap') \in Nat /\ Len(heap) <= Len(heap')
      /\ \A p \in 1..Len(heap) : p # order.p => heap'[p] = heap[p]
  BY HeapIs DEF HeapInv, Listed, Keeps
<1>2. DOMAIN reader' = Reader
  BY DEF DisturbTables
<1>3. ASSUME NEW p, NEW u, Private(p, u) PROVE Private(p, u)' /\ heap'[p] = heap[p]
  <2>1. p \in 1..Len(heap) /\ p # order.p /\ p \in 1..Len(heap') /\ ~Fresh(heap, p)
    BY <1>1, <1>3 DEF Private, Fresh
  <2>2. p # order'.p /\ heap'[p] = heap[p]
    BY <1>1, <2>1 DEF Listed
  <2>3. ASSUME NEW v \in DOMAIN tables', p \in Arrays(heap', tables'[v]) PROVE v = u /\ p # tables'[v].rows.p
    <3>1. v \in DOMAIN tables /\ tables'[v] = tables[v]
      BY <2>1, <2>3 DEF Listed
    <3>2. p \in Arrays(heap, tables[v])
      BY <2>3, <3>1, ListedTables
    <3> QED BY <1>3, <3>1, <3>2 DEF Private
  <2> QED BY <2>1, <2>2, <2>3 DEF Private
<1>4. ASSUME NEW r \in Reader PROVE ReaderOK(r)'
  <2> DEFINE q == reader[r]
  <2>0. ReaderOK(r)
    BY DEF ReaderInv
  <2>1. CASE q.at = "describe"
    <3>1. reader'[r] = [q EXCEPT !.disturbed = TRUE]
      BY <2>1 DEF DisturbTables
    <3>2. reader'[r] = [at |-> "describe", order |-> q.order, next |-> q.next, names |-> q.names, disturbed |-> TRUE]
      BY <2>0, <2>1, <3>1 DEF ReaderOK
    <3> QED BY <3>2 DEF ReaderOK
  <2>2. CASE q.at = "rows" /\ ~q.disturbed
    <3>0. reader'[r] = q
      BY <2>2 DEF DisturbTables
    <3>1. Private(q.cols.p, q.table) /\ \A k \in DOMAIN q.rows : Private(q.rows[k].p, q.table)
      BY <2>0, <2>2 DEF ReaderOK
    <3>2. heap'[q.cols.p] = heap[q.cols.p] /\ \A k \in DOMAIN q.rows : heap'[q.rows[k].p] = heap[q.rows[k].p]
      BY <1>3, <3>1
    <3>3. Held(r)' = Held(r)
      <4>1. RowsOf(heap', q.rows) = RowsOf(heap, q.rows)
        BY <3>2 DEF RowsOf, Items
      <4>2. Items(heap', q.cols) = Items(heap, q.cols)
        BY <3>2 DEF Items
      <4> QED BY <3>0, <4>1, <4>2 DEF Held
    <3>4. Private(q.cols.p, q.table)' /\ \A k \in DOMAIN q.rows : Private(q.rows[k].p, q.table)'
      BY <1>3, <3>0, <3>1
    <3> QED BY <2>0, <2>2, <3>0, <3>3, <3>4 DEF ReaderOK
  <2>3. CASE q.at = "rows" /\ q.disturbed
    <3>1. reader'[r] = q
      BY <2>3 DEF DisturbTables
    <3> QED BY <2>0, <2>3, <3>1 DEF ReaderOK
  <2>4. CASE q.at \notin {"rows", "describe"}
    <3>1. reader'[r] = q
      BY <2>4 DEF DisturbTables
    <3> QED BY <2>0, <2>4, <3>1 DEF ReaderOK
  <2> QED BY <2>1, <2>2, <2>3, <2>4
<1> QED BY <1>2, <1>4 DEF ReaderInv

LEMMA DropTableIs ==
  ASSUME InMemAssumption, HeapInv, OrderInv, ReaderInv, NEW t \in DOMAIN tables, DropTable(t)
  PROVE  /\ HeapInv' /\ OrderInv' /\ ReaderInv'
         /\ Content' = [u \in DOMAIN Content \ {t} |-> Content[u]]
<1> DEFINE names == heap[order.p]
<1>1. PICK i \in 1..order.n :
        /\ Items(heap, order)[i] = t
        /\ LET out == Cut(heap, order, i) IN heap' = out.heap /\ order' = out.slice
  BY DEF DropTable, Wrote
<1>2. heap \in Heap /\ Good(heap, order) /\ order.n \in Nat
  BY GoodIs DEF HeapInv
<1>3. /\ Keeps(heap, heap', {order.p}) /\ Good(heap', order') /\ order' = [p |-> order.p, n |-> order.n - 1]
      /\ \A j \in 1..(order.n - 1) : heap'[order.p][j] = IF j < i THEN names[j] ELSE names[j + 1]
  BY <1>1, <1>2, CutIs
<1>4. names[i] = t
  BY <1>1, <1>2, ItemsAre
<1>5. tables' = [u \in DOMAIN tables \ {t} |-> tables[u]] /\ DisturbTables
  BY DEF DropTable
<1>6. Listed
  BY <1>3, <1>5 DEF Listed, HeapInv
<1>7. HeapInv'
  BY <1>3, <1>5, <1>6, ListedHeap DEF Only
<1>8. ReaderInv'
  BY <1>5, <1>6, ListedReaders
<1>9. OrderInv'
  <2> DEFINE new == heap'[order.p]
             m == order.n - 1
  <2>0. order'.p = order.p /\ order'.n = m /\ DOMAIN tables' = DOMAIN tables \ {t} /\ m \in Nat
    BY <1>2, <1>3, <1>5
  <2>1. \A j \in 1..m : new[j] = IF j < i THEN names[j] ELSE names[j + 1]
    BY <1>3
  <2>2. \A j, k \in 1..order.n : names[j] = names[k] => j = k
    BY DEF OrderInv
  <2> HIDE DEF new, names
  <2>3. ASSUME NEW j \in 1..m PROVE new[j] \in DOMAIN tables /\ new[j] # t
    <3>1. CASE j < i
      <4>1. j \in 1..order.n /\ j # i /\ new[j] = names[j]
        BY <1>2, <2>1, <3>1
      <4> QED BY <1>4, <2>2, <4>1 DEF OrderInv, names
    <3>2. CASE ~(j < i)
      <4>1. j + 1 \in 1..order.n /\ j + 1 # i /\ new[j] = names[j + 1]
        BY <1>2, <2>1, <3>2
      <4> QED BY <1>4, <2>2, <4>1 DEF OrderInv, names
    <3> QED BY <3>1, <3>2
  <2>4. ASSUME NEW u \in DOMAIN tables, u # t PROVE \E j \in 1..m : new[j] = u
    <3>1. PICK l \in 1..order.n : names[l] = u
      BY DEF OrderInv, names
    <3>2. CASE l < i
      <4>1. l \in 1..m /\ new[l] = names[l]
        BY <1>2, <2>1, <3>2
      <4> QED BY <3>1, <4>1
    <3>3. CASE ~(l < i)
      <4>1. l # i
        BY <1>4, <2>4, <3>1
      <4>2. l - 1 \in 1..m /\ ~(l - 1 < i) /\ l - 1 + 1 = l
        BY <1>2, <3>3, <4>1
      <4>3. new[l - 1] = names[l]
        BY <2>1, <4>2
      <4> QED BY <3>1, <4>2, <4>3
    <3> QED BY <3>2, <3>3
  <2>5. ASSUME NEW j \in 1..m, NEW k \in 1..m, new[j] = new[k] PROVE j = k
    <3> DEFINE up(l) == IF l < i THEN l ELSE l + 1
    <3>1. new[j] = names[up(j)] /\ new[k] = names[up(k)]
      BY <2>1
    <3>2. up(j) \in 1..order.n /\ up(k) \in 1..order.n
      BY <1>2
    <3>3. up(j) = up(k)
      <4> HIDE DEF up
      <4> QED BY <2>2, <2>5, <3>1, <3>2
    <3> QED BY <1>2, <3>3
  <2>6. heap'[order'.p] = new
    BY <2>0 DEF new
  <2> QED BY <2>0, <2>3, <2>4, <2>5, <2>6 DEF OrderInv
<1>10. Content' = [u \in DOMAIN Content \ {t} |-> Content[u]]
  <2>1. Content' = [u \in DOMAIN tables' |-> View(heap', tables'[u])]
    BY DEF Content
  <2>2. \A u \in DOMAIN tables' : View(heap', tables'[u]) = Content[u]
    BY <1>5, <1>6, ListedTables DEF Content
  <2>3. DOMAIN tables' = DOMAIN Content \ {t}
    BY <1>5 DEF Content
  <2> QED BY <2>1, <2>2, <2>3
<1> QED BY <1>7, <1>8, <1>9, <1>10

LEMMA CreateTableIs ==
  ASSUME InMemAssumption, HeapInv, OrderInv, ReaderInv, NEW t \in Table, CreateTable(t)
  PROVE  /\ HeapInv' /\ OrderInv' /\ ReaderInv' /\ t \notin DOMAIN Content
         /\ \E c \in Column : Content' = Store!WithTable(Content, t, [cols |-> <<c>>, rows |-> <<>>])
<1> DEFINE names == heap[order.p]
           m == Len(heap)
<1>1. PICK c \in Column :
        LET cols == Alloc(heap, <<c>>)
            rows == Alloc(cols.heap, <<>>)
            out  == AppendTo(rows.heap, order, t)
        IN  /\ heap' = out.heap
            /\ tables' = [u \in DOMAIN tables \cup {t} |->
                            IF u = t THEN [cols |-> cols.slice, rows |-> rows.slice] ELSE tables[u]]
            /\ order' = out.slice
  BY DEF CreateTable, Wrote
<1>2. PICK h1, s1 : h1 = Alloc(heap, <<c>>).heap /\ s1 = Alloc(heap, <<c>>).slice
  OBVIOUS
<1>3. PICK h2, s2 : h2 = Alloc(h1, <<>>).heap /\ s2 = Alloc(h1, <<>>).slice
  OBVIOUS
<1> DEFINE y == [cols |-> s1, rows |-> s2]
<1>4. /\ heap' = AppendTo(h2, order, t).heap /\ order' = AppendTo(h2, order, t).slice
      /\ tables' = [u \in DOMAIN tables \cup {t} |-> IF u = t THEN y ELSE tables[u]]
  BY <1>1, <1>2, <1>3
<1>5. t \notin DOMAIN tables /\ DisturbTables
  BY DEF CreateTable
<1>6. heap \in Heap /\ Good(heap, order) /\ m \in Nat /\ order.n \in Nat /\ order.p \in 1..m
  BY GoodIs, HeapIs DEF HeapInv
<1>7. <<c>> \in Seq(Cell) /\ Len(<<c>>) = 1 /\ <<>> \in Seq(Cell) /\ Len(<<>>) = 0 /\ t \in Cell
  BY DEF Cell
<1>8. /\ h1 \in Heap /\ Len(h1) = m + 1 /\ (\A p \in 1..m : h1[p] = heap[p]) /\ h1[m + 1] = <<c>>
      /\ s1 = [p |-> m + 1, n |-> 1]
  <2> DEFINE z == <<c>>
  <2>1. z \in Seq(Cell) /\ Len(z) = 1
    BY <1>7
  <2> HIDE DEF z
  <2>2. /\ Keeps(heap, h1, {}) /\ Len(h1) = m + 1 /\ s1 = [p |-> m + 1, n |-> Len(z)] /\ h1[m + 1] = z
    BY <1>2, <1>6, <2>1, AllocIs DEF z
  <2> QED BY <2>1, <2>2 DEF Keeps, z
<1>9. /\ h2 \in Heap /\ Len(h2) = m + 2 /\ (\A p \in 1..(m + 1) : h2[p] = h1[p]) /\ h2[m + 2] = <<>>
      /\ s2 = [p |-> m + 2, n |-> 0]
  <2> DEFINE z == <<>>
  <2>1. z \in Seq(Cell) /\ Len(z) = 0
    BY <1>7
  <2> HIDE DEF z
  <2>2. /\ Keeps(h1, h2, {}) /\ Len(h2) = Len(h1) + 1 /\ s2 = [p |-> Len(h1) + 1, n |-> Len(z)] /\ h2[Len(h1) + 1] = z
    BY <1>3, <1>8, <2>1, AllocIs DEF z
  <2>3. Len(h1) + 1 = m + 2 /\ Len(h1) = m + 1
    BY <1>6, <1>8
  <2>4. \A p \in 1..Len(h1) : h2[p] = h1[p]
    BY <2>2 DEF Keeps
  <2>5. h2 \in Heap
    BY <2>2 DEF Keeps
  <2> QED BY <2>1, <2>2, <2>3, <2>4, <2>5 DEF z
<1>10. Good(h2, order) /\ Items(h2, order) = Items(heap, order)
  <2>1. h2[order.p] = heap[order.p] /\ Len(heap) <= Len(h2)
    BY <1>6, <1>8, <1>9
  <2> QED BY <1>6, <1>9, <2>1, GoodKept
<1>11. /\ Keeps(h2, heap', {order.p}) /\ Good(heap', order') /\ order'.n = order.n + 1
       /\ order'.p = order.p \/ Fresh(h2, order'.p)
       /\ Items(heap', order') = Append(Items(heap, order), t)
  BY ZenonT(40), <1>4, <1>7, <1>9, <1>10, AppendToIs
<1>12. /\ heap' \in Heap /\ Len(heap') \in Nat /\ m + 2 <= Len(heap')
       /\ (\A p \in 1..m : p # order.p => heap'[p] = heap[p])
       /\ heap'[m + 1] = <<c>> /\ heap'[m + 2] = <<>>
  <2>1. heap' \in Heap /\ m + 2 <= Len(heap') /\ \A p \in 1..(m + 2) : p # order.p => heap'[p] = h2[p]
    BY <1>9, <1>11 DEF Keeps
  <2>2. m + 1 \in 1..(m + 2) /\ m + 2 \in 1..(m + 2) /\ m + 1 # order.p /\ m + 2 # order.p /\ m + 1 \in 1..(m + 1)
    BY <1>6
  <2>3. Len(heap') \in Nat
    BY <2>1, HeapIs
  <2>4. heap'[m + 1] = h2[m + 1] /\ heap'[m + 2] = h2[m + 2] /\ h2[m + 1] = h1[m + 1]
    BY <1>9, <2>1, <2>2
  <2>5. ASSUME NEW p \in 1..m, p # order.p PROVE heap'[p] = heap[p]
    <3>1. p \in 1..(m + 1) /\ p \in 1..(m + 2)
      BY <1>6
    <3> QED BY <1>8, <1>9, <2>1, <2>5, <3>1
  <2> QED BY <1>8, <1>9, <2>1, <2>3, <2>4, <2>5
<1>13. order'.p \in Nat /\ (order'.p = order.p \/ order'.p > m + 2)
  BY <1>9, <1>11, <1>12, GoodIs DEF Fresh
<1>14. Good(heap', s1) /\ Good(heap', s2)
  <2>1. Len(heap'[m + 1]) = 1 /\ Len(heap'[m + 2]) = 0
    BY <1>7, <1>12
  <2>2. s1.p = m + 1 /\ s1.n = 1 /\ s1 \in Slice /\ s2.p = m + 2 /\ s2.n = 0 /\ s2 \in Slice
    BY <1>6, <1>8, <1>9 DEF Slice
  <2>3. m + 1 <= Len(heap') /\ m + 2 <= Len(heap')
    BY <1>6, <1>12
  <2> HIDE DEF m
  <2>4. s1.n <= Len(heap'[s1.p]) /\ s2.n <= Len(heap'[s2.p]) /\ s1.p <= Len(heap') /\ s2.p <= Len(heap')
    <3>1. heap'[s1.p] = heap'[m + 1] /\ heap'[s2.p] = heap'[m + 2]
      BY <2>2
    <3>2. Len(heap'[s1.p]) = 1 /\ Len(heap'[s2.p]) = 0
      BY <2>1, <3>1
    <3>3. s1.n <= Len(heap'[s1.p]) /\ s2.n <= Len(heap'[s2.p])
      BY <2>2, <3>2
    <3> QED BY <2>2, <2>3, <3>3
  <2> QED BY <2>2, <2>4 DEF Good
<1>15. y = [cols |-> y.cols, rows |-> y.rows] /\ y.cols = s1 /\ y.rows = s2
  OBVIOUS
<1> HIDE DEF y
<1>16. RowsNo(y) = {}
  BY <1>9, <1>15 DEF RowsNo
<1>17. TableOK(heap', y)
  BY <1>6, <1>8, <1>9, <1>14, <1>15, <1>16 DEF TableOK
<1>18. Arrays(heap', y) = {m + 1, m + 2}
  BY <1>8, <1>9, <1>15, <1>16 DEF Arrays
<1>19. \A p \in Arrays(heap', y) : Fresh(heap, p) /\ p # order'.p
  BY <1>6, <1>13, <1>18 DEF Fresh
<1>20. Listed /\ Only(t)
  <2>1. Keeps(heap, heap', {order.p})
    BY <1>6, <1>12 DEF Keeps
  <2>2. order'.p = order.p \/ Fresh(heap, order'.p)
    BY <1>6, <1>13 DEF Fresh
  <2>3. DOMAIN tables' = DOMAIN tables \cup {t} /\ tables'[t] = y /\ \A u \in DOMAIN tables : tables'[u] = tables[u]
    BY <1>4, <1>5
  <2>4. DOMAIN tables' \subseteq Table /\ tables' = [u \in DOMAIN tables' |-> tables'[u]]
    BY <1>4, <2>3 DEF HeapInv
  <2> QED BY <1>5, <1>17, <1>19, <2>1, <2>2, <2>3, <2>4 DEF Listed, Only
<1>21. HeapInv'
  BY <1>11, <1>20, ListedHeap
<1>22. ReaderInv'
  BY <1>5, <1>20, ListedReaders
<1>23. OrderInv'
  <2> DEFINE new == heap'[order'.p]
             z == Items(heap, order)
             n == order.n
  <2>1. z \in Seq(Cell) /\ Len(z) = n /\ \A j \in 1..n : z[j] = names[j]
    BY <1>6, ItemsAre
  <2>2. order'.n = n + 1 /\ \A j \in 1..(n + 1) : Items(heap', order')[j] = new[j]
    <3>1. \A j \in 1..order'.n : Items(heap', order')[j] = heap'[order'.p][j]
      BY <1>11, <1>12, ItemsAre
    <3> QED BY <1>11, <3>1
  <2> HIDE DEF z, new, names
  <2>3. (\A j \in 1..n : new[j] = names[j]) /\ new[n + 1] = t
    <3>1. (\A j \in 1..n : Append(z, t)[j] = z[j]) /\ Append(z, t)[n + 1] = t
      BY <1>7, <2>1, AppendProperties
    <3>2. n + 1 \in 1..(n + 1) /\ \A j \in 1..n : j \in 1..(n + 1)
      BY <1>6
    <3> QED BY <1>11, <2>1, <2>2, <3>1, <3>2 DEF z
  <2>4. \A j \in 1..(n + 1) : j \in 1..n \/ j = n + 1
    BY <1>6
  <2>5. DOMAIN tables' = DOMAIN tables \cup {t}
    BY <1>4
  <2>6. /\ \A j \in 1..n : names[j] \in DOMAIN tables
        /\ \A u \in DOMAIN tables : \E j \in 1..n : names[j] = u
        /\ \A j, k \in 1..n : names[j] = names[k] => j = k
    BY DEF OrderInv, names
  <2>7. \A j \in 1..(n + 1) : new[j] \in DOMAIN tables'
    BY <2>3, <2>4, <2>5, <2>6
  <2>8. \A u \in DOMAIN tables' : \E j \in 1..(n + 1) : new[j] = u
    <3>1. n + 1 \in 1..(n + 1) /\ \A j \in 1..n : j \in 1..(n + 1)
      BY <1>6
    <3> QED BY <2>3, <2>5, <2>6, <3>1
  <2>9. \A j, k \in 1..(n + 1) : new[j] = new[k] => j = k
    BY <1>5, <2>3, <2>4, <2>6
  <2> QED BY <2>2, <2>7, <2>8, <2>9 DEF OrderInv, new
<1>24. View(heap', y) = [cols |-> <<c>>, rows |-> <<>>]
  <2>1. View(heap', y) = [cols |-> Items(heap', s1), rows |-> Shown(heap', y)]
    BY <1>12, <1>15, <1>17, TableIs
  <2>2. Items(heap', s1) = <<c>>
    <3> DEFINE z == <<c>>
    <3>1. z \in Seq(Cell) /\ Len(z) = s1.n /\ z = heap'[s1.p]
      BY <1>7, <1>8, <1>12
    <3> HIDE DEF z
    <3>2. Items(heap', s1) = z
      BY <1>12, <1>14, <3>1, ItemsSame
    <3> QED BY <3>2 DEF z
  <2>3. Shown(heap', y) = <<>>
    BY <1>16 DEF Shown
  <2> QED BY <2>1, <2>2, <2>3
<1>25. Content' = Store!WithTable(Content, t, [cols |-> <<c>>, rows |-> <<>>])
  <2>1. Content' = [u \in DOMAIN tables' |-> View(heap', tables'[u])]
    BY DEF Content
  <2>2. DOMAIN tables' = DOMAIN tables \cup {t} /\ tables'[t] = y /\ \A u \in DOMAIN tables : tables'[u] = tables[u]
    BY <1>4, <1>5
  <2>3. \A u \in DOMAIN tables : View(heap', tables'[u]) = Content[u]
    BY <1>20, <2>2, ListedTables DEF Content
  <2>4. DOMAIN Content = DOMAIN tables
    BY DEF Content
  <2>5. \A u \in DOMAIN tables' : View(heap', tables'[u]) = IF u = t THEN [cols |-> <<c>>, rows |-> <<>>] ELSE Content[u]
    BY <1>24, <2>2, <2>3
  <2> QED BY <2>1, <2>2, <2>4, <2>5 DEF Store!WithTable
<1>26. t \notin DOMAIN Content
  BY <1>5 DEF Content
<1> QED BY <1>21, <1>22, <1>23, <1>25, <1>26

-----------------------------------------------------------------------------
(* Readers, which write nothing but themselves *)

LEMMA ReaderStep ==
  ASSUME IInv, UNCHANGED <<heap, tables, order>>, NEW r \in Reader, NEW q, reader' = [reader EXCEPT ![r] = q], ReaderOK(r)'
  PROVE  IInv' /\ UNCHANGED Content
<1>1. HeapInv' /\ OrderInv' /\ UNCHANGED Content
  BY DEF IInv, HeapInv, OrderInv, Apart, Content
<1>2. DOMAIN reader' = Reader /\ \A u \in Reader : u # r => reader'[u] = reader[u]
  BY DEF IInv, ReaderInv
<1>3. ASSUME NEW u \in Reader, u # r PROVE ReaderOK(u)'
  <2>1. ReaderOK(u) /\ reader'[u] = reader[u]
    BY <1>2, <1>3 DEF IInv, ReaderInv
  <2> QED BY <2>1 DEF ReaderOK, Held, Private
<1> QED BY <1>1, <1>2, <1>3 DEF IInv, ReaderInv

LEMMA ScanIs ==
  ASSUME IInv, NEW r \in Reader, Scan(r)
  PROVE  IInv' /\ UNCHANGED Content
<1>1. PICK t \in DOMAIN tables :
        reader' = [reader EXCEPT ![r] = [at |-> "rows", table |-> t, cols |-> tables[t].cols,
                                         rows |-> Items(heap, tables[t].rows),
                                         snap |-> View(heap, tables[t]), disturbed |-> FALSE]]
  BY DEF Scan
<1>2. UNCHANGED <<heap, tables, order>>
  BY DEF Scan
<1> DEFINE x == tables[t]
           rows == Items(heap, x.rows)
           snap == View(heap, x)
<1>3. PICK q : q = [at |-> "rows", table |-> t, cols |-> x.cols, rows |-> rows, snap |-> snap, disturbed |-> FALSE]
  OBVIOUS
<1>4. reader' = [reader EXCEPT ![r] = q] /\ reader'[r] = q
  BY <1>1, <1>3 DEF IInv, ReaderInv
<1>5. heap \in Heap /\ TableOK(heap, x) /\ Good(heap, x.rows)
  BY DEF IInv, HeapInv, TableOK
<1>6. DOMAIN rows = RowsNo(x) /\ \A k \in RowsNo(x) : rows[k] = Row(heap, x, k)
  BY <1>5, ItemsAre DEF RowsNo, Row
<1>7. ASSUME NEW p, p \in Arrays(heap, x), p # x.rows.p PROVE Private(p, t)
  <2>1. p \in 1..Len(heap) /\ p # order.p
    BY <1>5, <1>7, TableIs DEF IInv, HeapInv, Apart
  <2>2. \A u \in DOMAIN tables : p \in Arrays(heap, tables[u]) => u = t
    BY <1>7 DEF IInv, HeapInv, Apart
  <2> QED BY <1>7, <2>1, <2>2 DEF Private
<1>8. Private(x.cols.p, t) /\ \A k \in DOMAIN rows : Private(rows[k].p, t)
  <2>1. x.cols.p \in Arrays(heap, x) /\ x.cols.p # x.rows.p
    BY <1>5 DEF Arrays, TableOK
  <2>2. \A k \in RowsNo(x) : Row(heap, x, k).p \in Arrays(heap, x) /\ Row(heap, x, k).p # x.rows.p
    BY <1>5 DEF Arrays, TableOK
  <2> QED BY <1>6, <1>7, <2>1, <2>2
<1> HIDE DEF rows, x
<1>9. q = [at |-> "rows", table |-> q.table, cols |-> q.cols, rows |-> q.rows, snap |-> q.snap, disturbed |-> q.disturbed]
      /\ q.at = "rows" /\ q.table = t /\ q.cols = x.cols /\ q.rows = rows /\ q.snap = snap
  BY <1>3
<1>10. Held(r)' = q.snap
  BY <1>2, <1>4, <1>9 DEF Held, View, rows
<1>11. Private(q.cols.p, q.table)' /\ \A k \in DOMAIN q.rows : Private(q.rows[k].p, q.table)'
  BY <1>2, <1>8, <1>9 DEF Private
<1>12. ReaderOK(r)'
  BY <1>4, <1>9, <1>10, <1>11 DEF ReaderOK
<1> QED BY <1>2, <1>4, <1>12, ReaderStep

LEMMA DescribeIs ==
  ASSUME IInv, NEW r \in Reader, Describe(r)
  PROVE  IInv' /\ UNCHANGED Content
<1>1. PICK q : q = [at |-> "describe", order |-> order, next |-> 1, names |-> <<>>, disturbed |-> FALSE]
  OBVIOUS
<1>2. UNCHANGED <<heap, tables, order>> /\ reader' = [reader EXCEPT ![r] = q] /\ reader'[r] = q
  BY <1>1 DEF Describe, IInv, ReaderInv
<1>3. order.n \in Nat
  BY GoodIs DEF IInv, HeapInv
<1>4. /\ q.at = "describe" /\ q.order = order /\ q.next = 1 /\ q.names = <<>>
      /\ q = [at |-> "describe", order |-> q.order, next |-> q.next, names |-> q.names, disturbed |-> q.disturbed]
  BY <1>1
<1>5. ReaderOK(r)'
  <2>1. <<>> \in Seq(Table) /\ Len(<<>>) = 0
    OBVIOUS
  <2>2. q.next \in 1..(order.n + 1) /\ q.names \in Seq(Table) /\ Len(q.names) = q.next - 1 /\ 1..(q.next - 1) = {}
    BY <1>3, <1>4, <2>1
  <2>3. /\ q.order = order' /\ q.next \in 1..(order'.n + 1) /\ q.names \in Seq(Table) /\ Len(q.names) = q.next - 1
        /\ \A i \in 1..(q.next - 1) : q.names[i] = heap'[order'.p][i]
    BY <1>2, <1>4, <2>2
  <2> QED BY <1>2, <1>4, <2>3 DEF ReaderOK
<1> QED BY <1>2, <1>5, ReaderStep

LEMMA DescribeNextIs ==
  ASSUME IInv, NEW r \in Reader, DescribeNext(r)
  PROVE  IInv' /\ UNCHANGED Content
<1> DEFINE o == reader[r]
           n == heap[o.order.p][o.next]
<1>1. PICK q : q = IF n \in DOMAIN tables THEN [o EXCEPT !.next = @ + 1, !.names = Append(@, n)]
                   ELSE [at |-> "panic", disturbed |-> o.disturbed]
  OBVIOUS
<1>2. /\ UNCHANGED <<heap, tables, order>> /\ reader' = [reader EXCEPT ![r] = q] /\ reader'[r] = q
      /\ o.at = "describe" /\ o.next <= o.order.n
  <2>1. /\ UNCHANGED <<heap, tables, order>> /\ o.at = "describe" /\ o.next <= o.order.n
        /\ reader' = [reader EXCEPT ![r] = IF n \in DOMAIN tables THEN [o EXCEPT !.next = @ + 1, !.names = Append(@, n)]
                                           ELSE [at |-> "panic", disturbed |-> o.disturbed]]
    BY DEF DescribeNext
  <2>2. reader' = [reader EXCEPT ![r] = q]
    <3> HIDE DEF o, n
    <3> QED BY <1>1, <2>1
  <2>3. DOMAIN reader = Reader
    BY DEF IInv, ReaderInv
  <2> QED BY <2>1, <2>2, <2>3
<1>3. ReaderOK(r)
  BY DEF IInv, ReaderInv
<1>4. o = [at |-> "describe", order |-> o.order, next |-> o.next, names |-> o.names, disturbed |-> o.disturbed]
  BY <1>2, <1>3 DEF ReaderOK
<1>5. ~o.disturbed => /\ o.order = order /\ o.next \in 1..(order.n + 1)
                      /\ o.names \in Seq(Table) /\ Len(o.names) = o.next - 1
                      /\ \A i \in 1..(o.next - 1) : o.names[i] = heap[order.p][i]
  BY <1>2, <1>3 DEF ReaderOK
<1> HIDE DEF o, n
<1>6. order.n \in Nat
  BY GoodIs DEF IInv, HeapInv
<1>7. CASE n \in DOMAIN tables
  <2>1. q = [at |-> "describe", order |-> o.order, next |-> o.next + 1, names |-> Append(o.names, n), disturbed |-> o.disturbed]
    <3> DEFINE a == Append(o.names, n)
    <3>1. q = [o EXCEPT !.next = @ + 1, !.names = a]
      BY <1>1, <1>7
    <3> HIDE DEF a
    <3>2. q = [at |-> "describe", order |-> o.order, next |-> o.next + 1, names |-> a, disturbed |-> o.disturbed]
      <4> DEFINE e1 == o.order
                 e2 == o.next
                 e3 == o.names
                 e4 == o.disturbed
      <4>1. o = [at |-> "describe", order |-> e1, next |-> e2, names |-> e3, disturbed |-> e4]
        BY <1>4
      <4> HIDE DEF e1, e2, e3, e4
      <4>2. q = [at |-> "describe", order |-> e1, next |-> e2 + 1, names |-> a, disturbed |-> e4]
        BY <3>1, <4>1
      <4> QED BY <4>2 DEF e1, e2, e4
    <3> QED BY <3>2 DEF a
  <2>2. ~o.disturbed => /\ o.next + 1 \in 1..(order.n + 1)
                        /\ Append(o.names, n) \in Seq(Table) /\ Len(Append(o.names, n)) = o.next + 1 - 1
                        /\ \A i \in 1..(o.next + 1 - 1) : Append(o.names, n)[i] = heap[order.p][i]
    <3> SUFFICES ASSUME ~o.disturbed
                 PROVE  /\ o.next + 1 \in 1..(order.n + 1)
                        /\ Append(o.names, n) \in Seq(Table) /\ Len(Append(o.names, n)) = o.next + 1 - 1
                        /\ \A i \in 1..(o.next + 1 - 1) : Append(o.names, n)[i] = heap[order.p][i]
      OBVIOUS
    <3>1. o.next \in 1..order.n /\ n = heap[order.p][o.next]
      BY <1>2, <1>5, <1>6 DEF n
    <3>2. n \in Table
      BY <1>7 DEF IInv, HeapInv
    <3> DEFINE z == o.names
               a == Append(z, n)
    <3>3. /\ a \in Seq(Table) /\ Len(a) = Len(z) + 1
          /\ (\A i \in 1..Len(z) : a[i] = z[i]) /\ a[Len(z) + 1] = n
      BY <1>5, <3>2, AppendProperties
    <3> HIDE DEF a
    <3>4. Len(a) = o.next /\ Len(z) = o.next - 1 /\ Len(z) + 1 = o.next
      BY <1>5, <3>1, <3>3
    <3>5. ASSUME NEW i \in 1..o.next PROVE a[i] = heap[order.p][i]
      <4>1. CASE i = o.next
        BY <3>1, <3>3, <3>4, <4>1
      <4>2. CASE i # o.next
        <5>1. i \in 1..(o.next - 1)
          BY <3>1, <4>2
        <5> QED BY <1>5, <3>3, <3>4, <5>1
      <4> QED BY <4>1, <4>2
    <3>6. o.next + 1 - 1 = o.next /\ o.next + 1 \in 1..(order.n + 1)
      BY <1>6, <3>1
    <3> QED BY <3>3, <3>4, <3>5, <3>6 DEF a
  <2>3. /\ q.at = "describe" /\ q.order = o.order /\ q.next = o.next + 1 /\ q.names = Append(o.names, n)
        /\ q.disturbed = o.disturbed
        /\ q = [at |-> "describe", order |-> q.order, next |-> q.next, names |-> q.names, disturbed |-> q.disturbed]
    BY <2>1
  <2>4. ReaderOK(r)'
    <3>1. ~q.disturbed => /\ q.order = order' /\ q.next \in 1..(order'.n + 1)
                          /\ q.names \in Seq(Table) /\ Len(q.names) = q.next - 1
                          /\ \A i \in 1..(q.next - 1) : q.names[i] = heap'[order'.p][i]
      BY <1>2, <1>5, <2>2, <2>3
    <3> QED BY <1>2, <2>3, <3>1 DEF ReaderOK
  <2> QED BY <1>2, <2>4, ReaderStep
<1>8. CASE n \notin DOMAIN tables
  <2>1. q = [at |-> "panic", disturbed |-> o.disturbed]
    BY <1>1, <1>8
  <2>2. o.disturbed
    <3> SUFFICES ASSUME ~o.disturbed PROVE FALSE
      OBVIOUS
    <3>1. o.next \in 1..order.n /\ n = heap[order.p][o.next]
      BY <1>2, <1>5, <1>6 DEF n
    <3> QED BY <1>8, <3>1 DEF IInv, OrderInv
  <2>3. ReaderOK(r)'
    BY <1>2, <2>1, <2>2 DEF ReaderOK
  <2> QED BY <1>2, <2>3, ReaderStep
<1> QED BY <1>7, <1>8

LEMMA IdleIs ==
  ASSUME IInv, NEW r \in Reader, Answer(r) \/ Described(r)
  PROVE  IInv' /\ UNCHANGED Content
<1>1. UNCHANGED <<heap, tables, order>> /\ reader' = [reader EXCEPT ![r] = Idle] /\ reader'[r] = Idle
  BY DEF Answer, Described, IInv, ReaderInv
<1>2. ReaderOK(r)'
  BY <1>1 DEF ReaderOK, Idle
<1> QED BY <1>1, <1>2, ReaderStep

-----------------------------------------------------------------------------
(* The steps, as those of the store *)

LEMMA InitIs ==
  ASSUME InMemAssumption, Init
  PROVE  IInv /\ Store!Init
<1>1. PICK t \in Table, c \in Column, v \in Value :
        /\ heap = << <<c>>, <<v>>, <<[p |-> 2, n |-> 1]>>, <<t>> >>
        /\ tables = [u \in {t} |-> [cols |-> [p |-> 1, n |-> 1], rows |-> [p |-> 3, n |-> 1]]]
  BY DEF Init
<1> DEFINE w == [p |-> 2, n |-> 1]
           x == tables[t]
<1>2. order = [p |-> 4, n |-> 1] /\ reader = [r \in Reader |-> Idle]
  BY DEF Init
<1>3. c \in Cell /\ v \in Cell /\ t \in Cell /\ w \in Cell /\ w \in Slice
  BY DEF Cell, Datum, Slice
<1>4. /\ DOMAIN tables = {t} /\ x = [cols |-> [p |-> 1, n |-> 1], rows |-> [p |-> 3, n |-> 1]]
      /\ x.cols = [p |-> 1, n |-> 1] /\ x.rows = [p |-> 3, n |-> 1] /\ x = [cols |-> x.cols, rows |-> x.rows]
      /\ tables = [u \in DOMAIN tables |-> tables[u]]
  BY <1>1
<1> HIDE DEF x
<1>5. /\ heap \in Heap /\ Len(heap) = 4 /\ heap[1] = <<c>> /\ heap[2] = <<v>> /\ heap[3] = <<w>> /\ heap[4] = <<t>>
      /\ \A p \in 1..4 : Len(heap[p]) = 1
  <2> DEFINE a1 == <<c>>
             a2 == <<v>>
             a3 == <<w>>
             a4 == <<t>>
             S == Seq(Cell)
  <2>1. /\ a1 \in S /\ a2 \in S /\ a3 \in S /\ a4 \in S
        /\ Len(a1) = 1 /\ Len(a2) = 1 /\ Len(a3) = 1 /\ Len(a4) = 1
    BY <1>3
  <2>2. heap = <<a1, a2, a3, a4>>
    BY <1>1
  <2> HIDE DEF a1, a2, a3, a4, S
  <2>3. heap \in Seq(S) /\ Len(heap) = 4 /\ heap[1] = a1 /\ heap[2] = a2 /\ heap[3] = a3 /\ heap[4] = a4
    BY <2>1, <2>2
  <2>4. \A p \in 1..4 : p = 1 \/ p = 2 \/ p = 3 \/ p = 4
    OBVIOUS
  <2>5. \A p \in 1..4 : Len(heap[p]) = 1
    BY <2>1, <2>3, <2>4
  <2> QED BY <2>3, <2>5 DEF Heap, a1, a2, a3, a4, S
<1>6. Good(heap, x.cols) /\ Good(heap, x.rows) /\ Good(heap, w) /\ Good(heap, order)
  <2>1. ASSUME NEW p \in 1..4 PROVE Good(heap, [p |-> p, n |-> 1])
    <3> DEFINE s == [p |-> p, n |-> 1]
    <3>1. s \in Slice /\ s.p = p /\ s.n = 1
      BY DEF Slice
    <3> HIDE DEF s
    <3>2. Len(heap[p]) = 1 /\ p <= Len(heap)
      BY <1>5
    <3>3. s.p <= Len(heap) /\ s.n <= Len(heap[s.p])
      BY <3>1, <3>2
    <3>4. Good(heap, s)
      BY <3>1, <3>3 DEF Good
    <3> QED BY <3>4 DEF s
  <2> QED BY <1>2, <1>4, <2>1
<1>7. RowsNo(x) = {1} /\ Row(heap, x, 1) = w
  BY <1>4, <1>5 DEF RowsNo, Row
<1>8. TableOK(heap, x) /\ Arrays(heap, x) = {1, 2, 3}
  BY <1>4, <1>6, <1>7 DEF TableOK, Arrays
<1>9. HeapInv
  BY <1>2, <1>4, <1>5, <1>6, <1>8 DEF HeapInv, Apart, x
<1>10. OrderInv
  BY <1>2, <1>4, <1>5 DEF OrderInv
<1>11. ReaderInv
  BY <1>2 DEF ReaderInv, ReaderOK, Idle
<1>12. View(heap, x) = [cols |-> <<c>>, rows |-> << <<v>> >>]
  <2>1. View(heap, x) = [cols |-> Items(heap, x.cols), rows |-> Shown(heap, x)]
    BY <1>5, <1>8, TableIs
  <2>2. ASSUME NEW s, NEW e \in Cell, Good(heap, s), s.n = 1, heap[s.p] = <<e>> PROVE Items(heap, s) = <<e>>
    <3> DEFINE z == <<e>>
    <3>1. z \in Seq(Cell) /\ Len(z) = s.n /\ z = heap[s.p]
      BY <2>2
    <3> HIDE DEF z
    <3>2. Items(heap, s) = z
      BY <1>5, <2>2, <3>1, ItemsSame
    <3> QED BY <3>2 DEF z
  <2>3. Items(heap, x.cols) = <<c>>
    BY <1>3, <1>4, <1>5, <1>6, <2>2
  <2>4. Items(heap, w) = <<v>>
    BY <1>3, <1>5, <1>6, <2>2
  <2>5. Shown(heap, x) = << <<v>> >>
    BY <1>7, <2>4 DEF Shown
  <2> QED BY <2>1, <2>3, <2>5
<1>13. Content = [u \in {t} |-> [cols |-> <<c>>, rows |-> << <<v>> >>]]
  BY <1>4, <1>12 DEF Content, x
<1>14. Store!Init
  BY <1>1, <1>13 DEF Store!Init, Content
<1> QED BY <1>9, <1>10, <1>11, <1>14 DEF IInv

LEMMA ChangedIs ==
  ASSUME IInv, NEW t, NEW W, Changed(t, W), (W = {tables[t].rows.p} /\ reader' = reader) \/ Disturb(t),
         NEW cols, NEW rows, View(heap', tables'[t]) = [cols |-> cols, rows |-> rows]
  PROVE  IInv' /\ Store!Change(t, cols, rows)
<1>1. IInv'
  BY ChangedHeap, ChangedReaders DEF IInv
<1>2. Content' = Store!WithTable(Content, t, [cols |-> cols, rows |-> rows])
  BY ChangedContent DEF IInv
<1>3. Store!Change(t, cols, rows)
  BY <1>2 DEF Store!Change, Content
<1> QED BY <1>1, <1>3

LEMMA TableStep ==
  ASSUME InMemAssumption, IInv, NEW t \in DOMAIN tables,
         Insert(t) \/ Update(t) \/ Delete(t) \/ AddColumn(t) \/ DropColumn(t) \/ DropTable(t)
  PROVE  IInv' /\ Store!Next
<1> DEFINE c == Content[t].cols
           d == Content[t].rows
<1>1. HeapInv /\ t \in DOMAIN Content
  BY DEF IInv, Content
<1>2. CASE Insert(t)
  <2>1. Changed(t, {tables[t].rows.p}) /\ reader' = reader
    BY <1>1, <1>2, InsertIs
  <2>2. PICK row \in [1..Len(c) -> Datum] : View(heap', tables'[t]) = [cols |-> c, rows |-> Append(d, row)]
    BY <1>1, <1>2, InsertIs
  <2>3. PICK W : Changed(t, W) /\ W = {tables[t].rows.p}
    BY <2>1
  <2>4. PICK cols, rows : cols = c /\ rows = Append(d, row)
    OBVIOUS
  <2>5. IInv' /\ Store!Change(t, cols, rows)
    BY <2>1, <2>2, <2>3, <2>4, ChangedIs
  <2>6. Store!Insert(t, row)
    BY <2>4, <2>5 DEF Store!Insert, Content
  <2> QED BY <1>1, <2>2, <2>5, <2>6 DEF Store!Next, Store!Datum, Datum, Content
<1>3. CASE Update(t)
  <2>1. PICK W : Changed(t, W)
    BY <1>1, <1>3, UpdateIs
  <2>2. PICK i \in 1..Len(c), j \in 1..Len(c), v \in Value, w \in Datum :
          View(heap', tables'[t]) = [cols |-> c, rows |-> UpdatedRows(d, i, v, j, w)]
    BY <1>1, <1>3, UpdateIs
  <2>3. Disturb(t)
    BY <1>1, <1>3, UpdateIs
  <2>4. PICK cols, rows : cols = c /\ rows = UpdatedRows(d, i, v, j, w)
    OBVIOUS
  <2>5. IInv' /\ Store!Change(t, cols, rows)
    BY <2>1, <2>2, <2>3, <2>4, ChangedIs
  <2>6. Store!Update(t, i, v, j, w)
    BY <2>4, <2>5 DEF Store!Update, Content, UpdatedRows
  <2> QED BY <1>1, <2>2, <2>5, <2>6 DEF Store!Next, Store!Datum, Datum, Content
<1>4. CASE Delete(t)
  <2>1. Changed(t, {tables[t].rows.p}) /\ reader' = reader
    BY <1>1, <1>4, DeleteIs
  <2>2. PICK i \in 1..Len(c), v \in Value :
          View(heap', tables'[t]) = [cols |-> c, rows |-> Store!Picked(d, {k \in DOMAIN d : d[k][i] # v})]
    BY <1>1, <1>4, DeleteIs
  <2>3. PICK W : Changed(t, W) /\ W = {tables[t].rows.p}
    BY <2>1
  <2>4. PICK cols, rows : cols = c /\ rows = Store!Picked(d, {k \in DOMAIN d : d[k][i] # v})
    OBVIOUS
  <2>5. IInv' /\ Store!Change(t, cols, rows)
    BY <2>1, <2>2, <2>3, <2>4, ChangedIs
  <2>6. Store!Delete(t, i, v)
    BY <2>4, <2>5 DEF Store!Delete, Content
  <2> QED BY <1>1, <2>2, <2>5, <2>6 DEF Store!Next, Content
<1>5. CASE AddColumn(t)
  <2>1. PICK W : Changed(t, W)
    BY <1>1, <1>5, AddColumnIs
  <2>2. PICK e \in Column : View(heap', tables'[t]) = [cols |-> Append(c, e), rows |-> [k \in DOMAIN d |-> Append(d[k], Null)]]
    BY <1>1, <1>5, AddColumnIs
  <2>3. Disturb(t)
    BY <1>1, <1>5, AddColumnIs
  <2>4. PICK cols, rows : cols = Append(c, e) /\ rows = [k \in DOMAIN d |-> Append(d[k], Null)]
    OBVIOUS
  <2>5. IInv' /\ Store!Change(t, cols, rows)
    BY <2>1, <2>2, <2>3, <2>4, ChangedIs
  <2>6. Store!AddColumn(t, e)
    BY <2>4, <2>5 DEF Store!AddColumn, Content
  <2> QED BY <1>1, <2>2, <2>5, <2>6 DEF Store!Next, Content
<1>6. CASE DropColumn(t)
  <2>1. PICK W : Changed(t, W)
    BY <1>1, <1>6, DropColumnIs
  <2>2. PICK i \in 1..Len(c) : View(heap', tables'[t]) = [cols |-> Store!Without(c, i), rows |-> [k \in DOMAIN d |-> Store!Without(d[k], i)]]
    BY <1>1, <1>6, DropColumnIs
  <2>3. Disturb(t)
    BY <1>1, <1>6, DropColumnIs
  <2>4. PICK cols, rows : cols = Store!Without(c, i) /\ rows = [k \in DOMAIN d |-> Store!Without(d[k], i)]
    OBVIOUS
  <2>5. IInv' /\ Store!Change(t, cols, rows)
    BY <2>1, <2>2, <2>3, <2>4, ChangedIs
  <2>6. Store!DropColumn(t, i)
    BY <2>4, <2>5 DEF Store!DropColumn, Content
  <2> QED BY <1>1, <2>2, <2>5, <2>6 DEF Store!Next, Content
<1>7. CASE DropTable(t)
  <2>1. IInv' /\ Content' = [u \in DOMAIN Content \ {t} |-> Content[u]]
    BY <1>7, DropTableIs DEF IInv
  <2>2. Store!Drop(t)
    BY <2>1 DEF Store!Drop, Content
  <2> QED BY <1>1, <2>1, <2>2 DEF Store!Next, Content
<1> QED BY <1>2, <1>3, <1>4, <1>5, <1>6, <1>7

LEMMA CreateStep ==
  ASSUME InMemAssumption, IInv, NEW t \in Table, CreateTable(t)
  PROVE  IInv' /\ Store!Next
<1>1. IInv' /\ t \in Table \ DOMAIN Content
  BY CreateTableIs DEF IInv
<1>2. PICK c \in Column : Content' = Store!WithTable(Content, t, [cols |-> <<c>>, rows |-> <<>>])
  BY CreateTableIs DEF IInv
<1>3. Store!Create(t, <<c>>)
  BY <1>2 DEF Store!Create, Content
<1>4. 1 \in 0..MaxCols /\ <<c>> \in [1..1 -> Column]
  BY DEF InMemAssumption
<1> QED BY <1>1, <1>3, <1>4 DEF Store!Next, Content

LEMMA StepIs ==
  ASSUME InMemAssumption, IInv, [Next]_vars
  PROVE  IInv' /\ (Store!Next \/ UNCHANGED Content)
<1>1. ASSUME NEW t \in DOMAIN tables,
             Insert(t) \/ Update(t) \/ Delete(t) \/ AddColumn(t) \/ DropColumn(t) \/ DropTable(t)
      PROVE  IInv' /\ Store!Next
  BY <1>1, TableStep
<1>2. ASSUME NEW t \in Table, CreateTable(t) PROVE IInv' /\ Store!Next
  BY <1>2, CreateStep
<1>3. ASSUME NEW r \in Reader, Scan(r) \/ Answer(r) \/ Describe(r) \/ DescribeNext(r) \/ Described(r)
      PROVE  IInv' /\ UNCHANGED Content
  BY <1>3, ScanIs, DescribeIs, DescribeNextIs, IdleIs
<1>4. CASE UNCHANGED vars
  BY <1>4 DEF vars, IInv, HeapInv, OrderInv, Apart, ReaderInv, ReaderOK, Held, Private, Content
<1> QED BY <1>1, <1>2, <1>3, <1>4 DEF Next

-----------------------------------------------------------------------------
LEMMA ListCounts ==
  ASSUME HeapInv, OrderInv
  PROVE  OrderListed
<1> DEFINE names == heap[order.p]
           n == order.n
           f == [i \in 1..n |-> names[i]]
<1>1. n \in Nat /\ \A i \in 1..n : Items(heap, order)[i] = names[i]
  BY GoodIs, ItemsAre DEF HeapInv
<1>2. f \in Bijection(1..n, DOMAIN tables)
  <2>1. f \in [1..n -> DOMAIN tables]
    BY DEF OrderInv
  <2>2. \A i, j \in 1..n : f[i] = f[j] => i = j
    BY DEF OrderInv
  <2>3. \A t \in DOMAIN tables : \E i \in 1..n : f[i] = t
    BY DEF OrderInv
  <2> DEFINE D == 1..n
             S == DOMAIN tables
  <2> HIDE DEF f, n, D, S
  <2>4. f \in [D -> S]
    BY <2>1 DEF D, S
  <2>5. f \in Injection(D, S)
    <3>1. \A i, j \in D : f[i] = f[j] => i = j
      BY <2>2 DEF D
    <3>2. DOMAIN f = D /\ IsInjective(f)
      BY <2>4, <3>1 DEF IsInjective
    <3> QED BY <2>4, <3>2 DEF Injection
  <2>6. f \in Surjection(D, S)
    BY <2>3, <2>4 DEF Surjection, D, S
  <2> QED BY <2>5, <2>6 DEF Bijection, D, S
<1>3. IsFiniteSet(1..n) /\ Cardinality(1..n) = n
  <2> HIDE DEF n
  <2>1. 1 \in Int /\ n \in Int /\ n \in Nat
    BY <1>1
  <2>2. IsFiniteSet(1..n) /\ Cardinality(1..n) = IF 1 > n THEN 0 ELSE n - 1 + 1
    BY <2>1, FS_Interval
  <2>3. (IF 1 > n THEN 0 ELSE n - 1 + 1) = n
    BY <2>1
  <2> QED BY <2>2, <2>3
<1>4. Cardinality(DOMAIN tables) = n
  BY <1>2, <1>3, FS_Bijection DEF ExistsBijection
<1>5. {Items(heap, order)[i] : i \in 1..n} = DOMAIN tables
  BY <1>1 DEF OrderInv
<1> QED BY <1>4, <1>5 DEF OrderListed

LEMMA ReadersAre ==
  ASSUME IInv
  PROVE  ReadersUndisturbed
<1>1. OrderListed
  BY ListCounts DEF IInv
<1>2. UndisturbedStable
  BY DEF IInv, ReaderInv, ReaderOK, UndisturbedStable
<1>3. DescribeWhole
  <2> SUFFICES ASSUME NEW r \in Reader
               PROVE  /\ reader[r].at = "panic" => reader[r].disturbed
                      /\ reader[r].at = "describe" /\ reader[r].next > reader[r].order.n /\ ~reader[r].disturbed =>
                           /\ {reader[r].names[i] : i \in DOMAIN reader[r].names} = DOMAIN tables
                           /\ Len(reader[r].names) = Cardinality(DOMAIN tables)
    BY DEF DescribeWhole
  <2> DEFINE q == reader[r]
  <2>1. ReaderOK(r)
    BY DEF IInv, ReaderInv
  <2>2. ASSUME q.at = "describe", q.next > q.order.n, ~q.disturbed
        PROVE  /\ {q.names[i] : i \in DOMAIN q.names} = DOMAIN tables
               /\ Len(q.names) = Cardinality(DOMAIN tables)
    <3>1. /\ q.order = order /\ q.next \in 1..(order.n + 1)
          /\ q.names \in Seq(Table) /\ Len(q.names) = q.next - 1
          /\ \A i \in 1..(q.next - 1) : q.names[i] = heap[order.p][i]
      BY <2>1, <2>2 DEF ReaderOK
    <3>2. order.n \in Nat
      BY GoodIs DEF IInv, HeapInv
    <3>3. Len(q.names) = order.n /\ q.next - 1 = order.n
      BY <2>2, <3>1, <3>2
    <3>4. DOMAIN q.names = 1..order.n
      BY <3>1, <3>3
    <3>5. {q.names[i] : i \in DOMAIN q.names} = DOMAIN tables
      <4>1. \A i \in 1..order.n : q.names[i] = heap[order.p][i]
        BY <3>1, <3>3
      <4>2. /\ \A i \in 1..order.n : heap[order.p][i] \in DOMAIN tables
            /\ \A t \in DOMAIN tables : \E i \in 1..order.n : heap[order.p][i] = t
        BY DEF IInv, OrderInv
      <4> DEFINE ns == q.names
                 n  == order.n
      <4>3. /\ DOMAIN ns = 1..n /\ \A i \in 1..n : ns[i] \in DOMAIN tables
            /\ \A t \in DOMAIN tables : \E i \in 1..n : ns[i] = t
        BY <3>4, <4>1, <4>2
      <4> HIDE DEF ns, n
      <4>4. {ns[i] : i \in DOMAIN ns} = DOMAIN tables
        BY <4>3
      <4> QED BY <4>4 DEF ns
    <3> QED BY <1>1, <3>3, <3>5 DEF OrderListed
  <2> QED BY <2>1, <2>2 DEF ReaderOK
<1> QED BY <1>1, <1>2, <1>3 DEF ReadersUndisturbed

(* What a scan holds and what a Describe shows, neither under the mutex,   *)
(* change by no statement but UPDATE and ALTER of the table scanned, and   *)
(* CREATE and DROP TABLE; and b.order lists every table once               *)
(* (Backend.Scan, Describe, and every writer).                             *)
THEOREM ReadersCorrect == Spec => []ReadersUndisturbed
<1> USE InMemAssumption
<1>1. Init => IInv
  BY InitIs
<1>2. IInv /\ [Next]_vars => IInv'
  BY StepIs
<1>3. IInv => ReadersUndisturbed
  BY ReadersAre
<1> QED BY <1>1, <1>2, <1>3, PTL DEF Spec

(* Every statement of the backend, which appends, moves and overwrites     *)
(* cells of shared Go arrays, is one of the store: it changes the table it *)
(* names as it says, and no other (Backend.Insert, Update, Delete,         *)
(* CreateTable, AlterTable, DropTable).                                    *)
THEOREM StoreCorrect == Spec => StoreKept
<1> USE InMemAssumption
<1>1. Init => IInv /\ Store!Init
  BY InitIs
<1>2. IInv /\ [Next]_vars => IInv' /\ [Store!Next]_Content
  BY StepIs
<1>3. [Store!Next]_Content => [Store!Next]_([t \in DOMAIN tables |-> View(heap, tables[t])])
  BY DEF Content
<1> QED BY <1>1, <1>2, <1>3, PTL DEF Spec, StoreKept, Store!Spec

=============================================================================
