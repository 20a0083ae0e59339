CONSTANTS
  Chars <- MCChars
  Newline = "lf"
  CarriageReturn = "cr"
  Utf8Len <- MCTwoByteLetter
  Utf16Len <- MCOneByte
  None = None
  MaxHistory = 2
  MaxUndo = 2
  Contents <- MCContents
  Inserts <- MCInserts
  Positions <- MCPositions
  Batches = {}
  MaxVersion = 4
  MaxLen = 4
SPECIFICATION Spec
INVARIANT LineIndexCoherent
CHECK_DEADLOCK FALSE
