SPECIFICATION FairSpec
CONSTANTS
  b1 = b1
  b2 = b2
  b3 = b3
  b4 = b4
  b5 = b5
  Type = {"batch", "rpc"}
  Byte <- Bytes
  Payload <- Payloads
  HeaderSize = 8
  PacketSize = 10
  DefaultSize = 4096
  Width = 65536
  PidWidth = 2
  MaxSent = 2
INVARIANTS InStep
PROPERTIES WholeMessages Delivered
CHECK_DEADLOCK FALSE
