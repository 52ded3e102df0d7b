SPECIFICATION Spec
CONSTANTS
  c1 = c1
  c2 = c2
  ada = ada
  alan = alan
  k1 = k1
  Conn <- MCConnPair
  User <- MCUsers
  Closer = {k1}
  Target <- MCTarget
  TLSConfigured = TRUE
  AllowPlaintext = FALSE
  Panics = {"visibility"}
  ClientKinds = {"batch"}
  MaxMsgs = 1
SYMMETRY ConnSymmetry
INVARIANTS TypeOK RegistryIsLive VisibilityRespected AuditBalanced CloseEndsAttached
PROPERTIES OnlyMatchingClosed LedgerKept
CHECK_DEADLOCK FALSE
