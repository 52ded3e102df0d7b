\* Forty statements, in both writings, untouched and with one mistake.  A text once read stays read.
SPECIFICATION Spec
CONSTANTS
  Statements <- MCStatements
  Strays <- MCStrays
  MaxEdits = 1
CHECK_DEADLOCK FALSE
INVARIANTS
  ReadAsWritten
  NothingIgnored
