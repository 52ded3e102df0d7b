------------------------------ MODULE TableStore ------------------------------
(***************************************************************************)
(* What a backend promises of its tables (tds.Writer, tds.DDL): each       *)
(* statement takes effect at once, on the table it names and no other.     *)
(***************************************************************************)
EXTENDS Integers, Sequences, FiniteSets

CONSTANTS
  Table, Column, Value, Null,
  MaxCols      \* bound: columns of a table when it is created

VARIABLE content   \* the columns and rows of each table

Datum == Value \cup {Null}

(* what s has at the places K, in order *)
Places(K, m) == CHOOSE f \in [1..m -> K] : \A i, j \in 1..m : i < j => f[i] < f[j]
Picked(s, K) ==
  LET m  == Cardinality(K)
      at == Places(K, m)
  IN  [i \in 1..m |-> s[at[i]]]

WithTable(c, t, x) == [u \in DOMAIN c \cup {t} |-> IF u = t THEN x ELSE c[u]]

Init == \E t \in Table, c \in Column, v \in Value :
          content = [u \in {t} |-> [cols |-> <<c>>, rows |-> << <<v>> >>]]

(* CREATE TABLE, DROP TABLE *)
Create(t, cols) == content' = WithTable(content, t, [cols |-> cols, rows |-> <<>>])
Drop(t)         == content' = [u \in DOMAIN content \ {t} |-> content[u]]

Change(t, cols, rows) == content' = WithTable(content, t, [cols |-> cols, rows |-> rows])

Insert(t, row) == Change(t, content[t].cols, Append(content[t].rows, row))

Update(t, i, v, j, w) ==   \* UPDATE t SET column j = w WHERE column i = v
  Change(t, content[t].cols,
         [k \in DOMAIN content[t].rows |->
            IF content[t].rows[k][i] = v THEN [content[t].rows[k] EXCEPT ![j] = w] ELSE content[t].rows[k]])

Delete(t, i, v) ==         \* DELETE t WHERE column i = v
  LET rows == content[t].rows
  IN  Change(t, content[t].cols, Picked(rows, {k \in DOMAIN rows : rows[k][i] # v}))

AddColumn(t, c) ==
  Change(t, Append(content[t].cols, c), [k \in DOMAIN content[t].rows |-> Append(content[t].rows[k], Null)])

Without(s, i) == SubSeq(s, 1, i - 1) \o SubSeq(s, i + 1, Len(s))

DropColumn(t, i) ==
  Change(t, Without(content[t].cols, i), [k \in DOMAIN content[t].rows |-> Without(content[t].rows[k], i)])

Next ==
  \/ \E t \in Table \ DOMAIN content, n \in 0..MaxCols :
       \E cols \in [1..n -> Column] : Create(t, cols)
  \/ \E t \in DOMAIN content :
       LET width == Len(content[t].cols) IN
       \/ Drop(t)
       \/ \E row \in [1..width -> Datum] : Insert(t, row)
       \/ \E i, j \in 1..width, v \in Value, w \in Datum : Update(t, i, v, j, w)
       \/ \E i \in 1..width, v \in Value : Delete(t, i, v)
       \/ \E c \in Column : AddColumn(t, c)
       \/ \E i \in 1..width : DropColumn(t, i)

Spec == Init /\ [][Next]_content
=============================================================================
