SPECIFICATION CacheSpec
CONSTANTS
  Dbs <- MCDbs
  Keys <- MCKeys
  Spelled <- MCSpelled
  Filed <- MCFiled
  Schemas <- MCSchemas
  RoutineSets <- MCRoutineSets
  NoRoutines = "none"
  Absent = Absent
  Unread = Unread
  NoKey = NoKey
  Only = "Sales"
  Plans <- MCPlans
  FirstTables <- MCFirstTables
  FirstRoutines <- MCFirstRoutines
  MaxStatements = 2
  MaxChanges = 1
  MaxFaults = 1
  Lower <- MCLower
  Hash <- MCHash
  DbHash <- MCDbHash
  Rank <- MCRank
  Current = "Sales"
  Caller <- MCCaller
  Live <- MCLive
  Order <- MCOrder
  Holds <- MCHolds
  Stores <- MCStores
INVARIANTS
  TypeOK
  OneFreshCatalogue
  AskedOnce
  ReferencesJoin
  ReportersAgree
