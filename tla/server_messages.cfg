SPECIFICATION FairSpec
CONSTANTS
  c1 = c1
  c2 = c2
  ada = ada
  alan = alan
  k1 = k1
  Conn <- MCConnOne
  User <- MCUsers
  Closer = {k1}
  Target <- MCTarget
  TLSConfigured = TRUE
  AllowPlaintext = FALSE
  Panics = {"authenticate", "audit_login", "visibility"}
  ClientKinds = {"batch", "rpc", "bad_rpc", "attention", "other"}
  MaxMsgs = 2
INVARIANTS NoCleartextLogin RepliesMatch
PROPERTIES MessageHandled GivenUp
CHECK_DEADLOCK FALSE
