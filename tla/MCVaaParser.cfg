CHECK_DEADLOCK FALSE
SPECIFICATION Spec
CONSTANTS
  SigCounts = {0, 1, 2, 13, 19, 20, 255}
  PayloadTypes = {1, 3}
  Lengths <- MCLengths
  NotParsed = NotParsed
INVARIANTS
  ParsesToken
  NeverReadsPast
