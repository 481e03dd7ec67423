CHECK_DEADLOCK FALSE
SPECIFICATION Spec
CONSTANTS
  U128 = 2
  U64 = 2
  U32 = 1
  Bytes32 = 3
  InitialSize = 4
  Inputs <- MCInputs
  Texts <- MCTexts
  Throws = Throws
  Nothing = Nothing
INVARIANTS
  ReadsBack
  WritesBack
