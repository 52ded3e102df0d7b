\* two gateways that start, work, fail and start again over one store, of every kind
CONSTANTS
  Gates = {g1, g2}
  KindsServed = {"hybrid", "declared", "hits", "sampled", "static"}
  TableNames = {"people", "orders"}
  NoTable = NoTable
  ValueKind <- ValueKinds
  ValueRank <- ValueRanks
  Demo <- MCDemo
  Foreign <- MCForeign
  CreateLists <- MCCreateLists
  ChangedTables = {"orders"}
  RowLists <- MCRowLists
  Wheres <- MCWheres
  Sets <- MCSets
  SampleSize = 1
  ScanSize = 2
  MaxJobs = 2
  MaxFailures = 1
SYMMETRY Symmetric
SPECIFICATION Spec
INVARIANTS
  TypeOK
  DescribeTrue
  SeededTogether
  SeededOnceEach
PROPERTIES
  StartKeeps
