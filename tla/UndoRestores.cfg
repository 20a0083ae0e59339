CONSTANTS
  Chars <- MCChars
  Newline = "lf"
  CarriageReturn = "cr"
  Utf8Len <- MCOneByte
  Utf16Len <- MCOneByte
  None = None
  MaxHistory = 2
  MaxUndo = 2
  Contents <- MCContents
  Inserts <- MCInserts
  Positions <- MCPositions
  Batches = {}
  Kinds = {"insert", "delete"}
  MaxVersion = 5
  MaxLen = 4
SPECIFICATION CSpec
PROPERTY UndoRestores
CHECK_DEADLOCK FALSE
