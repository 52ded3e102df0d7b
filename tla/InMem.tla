-------------------------------- MODULE InMem --------------------------------
(***************************************************************************)
(* examples/inmem: tables in Go maps and slices under one mutex.  Writers  *)
(* hold the mutex for a whole statement, so each is one step; a reader of  *)
(* Scan's result and Describe read the shared arrays without it.           *)
(*                                                                         *)
(* heap holds Go's arrays.  A slice is an array and a length; append       *)
(* writes in place while the array has room and copies it when not.        *)
(***************************************************************************)
EXTENDS Integers, Sequences, FiniteSets

CONSTANTS
  Table, Column, Value, Null,
  Reader,      \* connections that run a query
  MaxWrites,   \* bound: statements that write
  MaxRows,     \* bound: rows of a table
  MaxCols      \* bound: columns of a table

ASSUME InMemAssumption ==
  /\ Null \notin Value /\ Table # {} /\ Column # {}
  /\ MaxWrites \in Nat /\ MaxRows \in Nat /\ MaxCols \in Nat \ {0}

VARIABLES
  heap,      \* arrays
  tables,    \* Backend.tables: slices of columns and rows
  order,     \* Backend.order
  reader,    \* a query: what it does, the slices it holds, what it has read
  writes     \* statements that wrote

vars == <<heap, tables, order, reader, writes>>

Datum == Value \cup {Null}

-----------------------------------------------------------------------------
(* Go slices over a heap h *)

Items(h, s)  == SubSeq(h[s.p], 1, s.n)
Alloc(h, xs) == [heap |-> Append(h, xs), slice |-> [p |-> Len(h) + 1, n |-> Len(xs)]]

AppendTo(h, s, x) ==
  IF s.n < Len(h[s.p])
  THEN [heap |-> [h EXCEPT ![s.p][s.n + 1] = x], slice |-> [s EXCEPT !.n = @ + 1]]
  ELSE LET room == IF s.n = 0 THEN 0 ELSE s.n - 1
       IN  [heap |-> Append(h, Append(Items(h, s), x) \o [i \in 1..room |-> Null]),
            slice |-> [p |-> Len(h) + 1, n |-> s.n + 1]]

(* append(s[:i-1], s[i:]...): the cells behind i move down in place *)
Cut(h, s, i) ==
  [heap  |-> [h EXCEPT ![s.p] = SubSeq(@, 1, i - 1) \o SubSeq(@, i + 1, s.n) \o SubSeq(@, s.n, Len(@))],
   slice |-> [s EXCEPT !.n = @ - 1]]

(* op for every row of a table, one after the other, in place in t.rows *)
EachRow(h, rows, op(_, _)) ==
  LET g[k \in 0..rows.n] ==
        IF k = 0 THEN h
        ELSE LET r == op(g[k - 1], g[k - 1][rows.p][k]) IN [r.heap EXCEPT ![rows.p][k] = r.slice]
  IN  g[rows.n]

(* what s has at the places K, in order *)
Places(K, m) == CHOOSE f \in [1..m -> K] : \A i, j \in 1..m : i < j => f[i] < f[j]
Picked(s, K) ==
  LET m  == Cardinality(K)
      at == Places(K, m)
  IN  [i \in 1..m |-> s[at[i]]]

RowsOf(h, rows)  == [k \in DOMAIN rows |-> Items(h, rows[k])]
View(h, t)       == [cols |-> Items(h, t.cols), rows |-> RowsOf(h, Items(h, t.rows))]

-----------------------------------------------------------------------------
Idle == [at |-> "idle"]

(* New: a table, of one column and one row *)
Init ==
  /\ \E t \in Table, c \in Column, v \in Value :
        /\ heap = << <<c>>, <<v>>, <<[p |-> 2, n |-> 1]>>, <<t>> >>
        /\ tables = [u \in {t} |-> [cols |-> [p |-> 1, n |-> 1], rows |-> [p |-> 3, n |-> 1]]]
  /\ order = [p |-> 4, n |-> 1]
  /\ reader = [r \in Reader |-> Idle]
  /\ writes = 0

(* A statement that writes and leaves the heap h *)
Wrote(h) ==
  /\ writes < MaxWrites /\ writes' = writes + 1
  /\ heap' = h

(* history: the statement changes rows or columns of t in place *)
Disturb(t) ==
  reader' = [r \in Reader |-> IF reader[r].at = "rows" /\ reader[r].table = t
                              THEN [reader[r] EXCEPT !.disturbed = TRUE] ELSE reader[r]]

(* history: the statement changes which tables there are *)
DisturbTables ==
  reader' = [r \in Reader |-> IF reader[r].at = "describe"
                              THEN [reader[r] EXCEPT !.disturbed = TRUE] ELSE reader[r]]

Width(t) == tables[t].cols.n

Insert(t) ==
  /\ tables[t].rows.n < MaxRows
  /\ \E vals \in [1..Width(t) -> Datum] :
        LET full == Alloc(heap, vals)
            out  == AppendTo(full.heap, tables[t].rows, full.slice)
        IN  /\ Wrote(out.heap)
            /\ tables' = [tables EXCEPT ![t].rows = out.slice]
  /\ UNCHANGED <<order, reader>>

(* row[ci] = value, in the array a scan shares *)
Update(t) ==
  /\ \E i, j \in 1..Width(t), v \in Value, w \in Datum :
        LET hit == {heap[tables[t].rows.p][k].p : k \in
                      {k \in 1..tables[t].rows.n : Items(heap, heap[tables[t].rows.p][k])[i] = v}}
        IN  /\ hit # {}
            /\ Wrote([p \in DOMAIN heap |-> IF p \in hit THEN [heap[p] EXCEPT ![j] = w] ELSE heap[p]])
  /\ Disturb(t)
  /\ UNCHANGED <<tables, order>>

(* mutant: the rows deleted are cleared too, to free their values *)
BugDelete(t) ==
  /\ \E i \in 1..Width(t), v \in Value :
        LET rows == tables[t].rows
            kept == Picked(Items(heap, rows), {k \in 1..rows.n : Items(heap, heap[rows.p][k])[i] # v})
            gone == {r.p : r \in {heap[rows.p][k] : k \in 1..rows.n}} \ {kept[k].p : k \in DOMAIN kept}
            h    == [p \in DOMAIN heap |-> IF p \in gone THEN [j \in DOMAIN heap[p] |-> Null] ELSE heap[p]]
        IN  /\ Len(kept) < rows.n
            /\ Wrote([h EXCEPT ![rows.p] = kept \o SubSeq(@, Len(kept) + 1, Len(@))])
            /\ tables' = [tables EXCEPT ![t].rows.n = Len(kept)]
  /\ UNCHANGED <<order, reader>>

(* kept := t.rows[:0]: the kept rows move to the front in place *)
Delete(t) ==
  /\ \E i \in 1..Width(t), v \in Value :
        LET rows == tables[t].rows
            kept == Picked(Items(heap, rows), {k \in 1..rows.n : Items(heap, heap[rows.p][k])[i] # v})
        IN  /\ Len(kept) < rows.n
            /\ Wrote([heap EXCEPT ![rows.p] = kept \o SubSeq(@, Len(kept) + 1, Len(@))])
            /\ tables' = [tables EXCEPT ![t].rows.n = Len(kept)]
  /\ UNCHANGED <<order, reader>>

CreateTable(t) ==
  /\ t \notin DOMAIN tables
  /\ \E c \in Column :
        LET cols == Alloc(heap, <<c>>)
            rows == Alloc(cols.heap, <<>>)
            out  == AppendTo(rows.heap, order, t)
        IN  /\ Wrote(out.heap)
            /\ tables' = [u \in DOMAIN tables \cup {t} |->
                            IF u = t THEN [cols |-> cols.slice, rows |-> rows.slice] ELSE tables[u]]
            /\ order' = out.slice
  /\ DisturbTables

(* AlterTable, ADD: append a column, and nil to every row *)
AddColumn(t) ==
  /\ Width(t) < MaxCols
  /\ \E c \in Column :
        LET cols == AppendTo(heap, tables[t].cols, c)
            AddNil(h, s) == AppendTo(h, s, Null)
        IN  /\ Wrote(EachRow(cols.heap, tables[t].rows, AddNil))
            /\ tables' = [tables EXCEPT ![t].cols = cols.slice]
  /\ Disturb(t)
  /\ UNCHANGED order

(* mutant: the rows keep the value of the column dropped *)
BugDropColumn(t) ==
  /\ \E i \in 1..Width(t) :
        /\ \A j \in 1..(i-1) : Items(heap, tables[t].cols)[j] # Items(heap, tables[t].cols)[i]
        /\ LET cols == Cut(heap, tables[t].cols, i)
           IN  /\ Wrote(cols.heap)
               /\ tables' = [tables EXCEPT ![t].cols = cols.slice]
  /\ Disturb(t)
  /\ UNCHANGED order

(* AlterTable, DROP: the first column of that name goes, in place, from    *)
(* the columns and from every row.  DROP of several is one step for each.  *)
DropColumn(t) ==
  /\ \E i \in 1..Width(t) :
        /\ \A j \in 1..(i-1) : Items(heap, tables[t].cols)[j] # Items(heap, tables[t].cols)[i]
        /\ LET cols == Cut(heap, tables[t].cols, i)
               CutRow(h, s) == IF i <= s.n THEN Cut(h, s, i) ELSE [heap |-> h, slice |-> s]
           IN  /\ Wrote(EachRow(cols.heap, tables[t].rows, CutRow))
               /\ tables' = [tables EXCEPT ![t].cols = cols.slice]
  /\ Disturb(t)
  /\ UNCHANGED order

DropTable(t) ==
  /\ \E i \in 1..order.n :
        /\ Items(heap, order)[i] = t
        /\ LET out == Cut(heap, order, i)
           IN  Wrote(out.heap) /\ order' = out.slice
  /\ tables' = [u \in DOMAIN tables \ {t} |-> tables[u]]
  /\ DisturbTables

-----------------------------------------------------------------------------
(* Scan copies the slice of rows, under the mutex, and neither the rows nor *)
(* the columns: the copy is the reader's own, what it points to is not.     *)
(* snap is history: the table as it was.                                    *)
Scan(r) ==
  /\ reader[r].at = "idle"
  /\ \E t \in DOMAIN tables :
        reader' = [reader EXCEPT ![r] = [at |-> "rows", table |-> t, cols |-> tables[t].cols,
                                         rows |-> Items(heap, tables[t].rows),
                                         snap |-> View(heap, tables[t]), disturbed |-> FALSE]]
  /\ UNCHANGED <<heap, tables, order, writes>>

(* The query is answered from the slices of the scan *)
Answer(r) ==
  /\ reader[r].at = "rows"
  /\ reader' = [reader EXCEPT ![r] = Idle]
  /\ UNCHANGED <<heap, tables, order, writes>>

(* Describe ranges over b.order without the mutex, *)
Describe(r) ==
  /\ reader[r].at = "idle"
  /\ reader' = [reader EXCEPT ![r] = [at |-> "describe", order |-> order, next |-> 1, names |-> <<>>, disturbed |-> FALSE]]
  /\ UNCHANGED <<heap, tables, order, writes>>

(* and dereferences b.tables[n], nil for a table dropped meanwhile *)
DescribeNext(r) ==
  /\ reader[r].at = "describe" /\ reader[r].next <= reader[r].order.n
  /\ LET q == reader[r]
         n == heap[q.order.p][q.next]
     IN  reader' = [reader EXCEPT ![r] =
           IF n \in DOMAIN tables THEN [q EXCEPT !.next = @ + 1, !.names = Append(@, n)]
           ELSE [at |-> "panic", disturbed |-> q.disturbed]]
  /\ UNCHANGED <<heap, tables, order, writes>>

(* handleMessage recovers from the panic *)
Described(r) ==
  /\ \/ reader[r].at = "describe" /\ reader[r].next > reader[r].order.n
     \/ reader[r].at = "panic"
  /\ reader' = [reader EXCEPT ![r] = Idle]
  /\ UNCHANGED <<heap, tables, order, writes>>

Next ==
  \/ \E t \in DOMAIN tables :
       Insert(t) \/ Update(t) \/ Delete(t) \/ AddColumn(t) \/ DropColumn(t) \/ DropTable(t)
  \/ \E t \in Table : CreateTable(t)
  \/ \E r \in Reader : Scan(r) \/ Answer(r) \/ Describe(r) \/ DescribeNext(r) \/ Described(r)

Spec == Init /\ [][Next]_vars

-----------------------------------------------------------------------------
(* The tables as statements see them are those of a store whose statements *)
(* are atomic and touch one table: sharing arrays, growing them and moving *)
(* cells in place never leaks from one row or table into another.          *)
Store == INSTANCE TableStore WITH content <- [t \in DOMAIN tables |-> View(heap, tables[t])]
StoreKept == Store!Spec

(* b.order, which DDL changes in place, lists every table once, and        *)
(* nothing else (CreateTable and DropTable).                               *)
OrderListed ==
  LET names == Items(heap, order)
  IN  /\ {names[i] : i \in 1..order.n} = DOMAIN tables
      /\ order.n = Cardinality(DOMAIN tables)

(* INSERT and DELETE of other connections, and DROP TABLE, never show in   *)
(* the rows of a scan: only UPDATE and ALTER TABLE write what it shares.   *)
Held(r) == [cols |-> Items(heap, reader[r].cols), rows |-> RowsOf(heap, reader[r].rows)]
UndisturbedStable ==
  \A r \in Reader : reader[r].at = "rows" /\ ~reader[r].disturbed => Held(r) = reader[r].snap

(* Describe, which takes no lock, still shows every table once, whatever   *)
(* rows and columns change under it, unless a table is created or dropped  *)
(* meanwhile: only then may it repeat one, miss one or panic.              *)
DescribeWhole ==
  \A r \in Reader :
    /\ reader[r].at = "panic" => reader[r].disturbed
    /\ reader[r].at = "describe" /\ reader[r].next > reader[r].order.n /\ ~reader[r].disturbed =>
         /\ {reader[r].names[i] : i \in DOMAIN reader[r].names} = DOMAIN tables
         /\ Len(reader[r].names) = Cardinality(DOMAIN tables)

(* What readers that hold no lock, or no longer, are shown is disturbed by *)
(* no other statement than those: INSERT and DELETE never show in a scan,  *)
(* nor anything but CREATE and DROP TABLE in a Describe, and the order     *)
(* they read by is the tables'.                                            *)
ReadersUndisturbed == OrderListed /\ UndisturbedStable /\ DescribeWhole
=============================================================================
