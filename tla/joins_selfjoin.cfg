SPECIFICATION Spec
CONSTANTS
  emp = emp
  dept = dept
  tmp = tmp
  der = der
  e = e
  m = m
  d = d
  x = x
  y = y
  NoName = NoName
  Null = Null
  Rel <- Rels
  Local = {tmp}
  Name <- Names
  Col <- Cols
  Value = {1, 2}
  ColsOf <- Columns
  SubRel = dept
  SubCol = y
  SubKey = x
  Queries <- SelfJoin
  Stores <- Contents
  SemiJoinCap = 1
  MaxWrites = 1
INVARIANTS AnswerIsWhole
CHECK_DEADLOCK FALSE
