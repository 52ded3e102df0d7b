SPECIFICATION Spec
CONSTANTS
  items = items
  others = others
  edges = edges
  tree = tree
  CaseStep = 100
  NilWord = 0
  Tables <- MCTables
  Contents <- MCContents
  Statements <- MCStatements
  maxRecursionDepth = 3
  MaxWrites = 1
INVARIANTS AnswersMeant OrderObeyed
PROPERTY EngineProgresses
