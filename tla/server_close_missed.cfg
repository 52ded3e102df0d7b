SPECIFICATION Spec
CONSTANTS
  c1 = c1
  c2 = c2
  ada = ada
  alan = alan
  k1 = k1
  Conn <- MCConnPair
  User <- MCUsers
  Closer = {k1}
  Target <- MCTarget
  TLSConfigured = TRUE
  AllowPlaintext = TRUE
  Panics = {}
  ClientKinds = {"batch"}
  MaxMsgs = 0
INVARIANT CloseEndsListed
CHECK_DEADLOCK FALSE
