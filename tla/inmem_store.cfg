SPECIFICATION Spec
CONSTANTS
  t1 = t1
  t2 = t2
  a = a
  b = b
  r1 = r1
  Table = {t1, t2}
  Column = {a, b}
  Value = {1}
  Null = Null
  Reader = {r1}
  MaxWrites = 4
  MaxRows = 2
  MaxCols = 2
SYMMETRY Symmetric
INVARIANT ReadersUndisturbed
PROPERTY StoreKept
CHECK_DEADLOCK FALSE
