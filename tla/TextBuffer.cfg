CONSTANTS
  Chars <- MCChars
  Newline = "lf"
  CarriageReturn = "cr"
  Utf8Len <- MCOneByte
  Utf16Len <- MCOneByte
  None = None
  MaxHistory = 2
  MaxUndo = 2
  Contents <- MCContents
  Inserts <- MCInserts
  Positions <- MCPositions
  Batches <- MCBatches
  MaxVersion = 4
  MaxLen = 4
SPECIFICATION Spec
INVARIANTS TypeOK LineIndexCoherent LineageContiguous UndoBounded
PROPERTIES LineageCurrent CleanMeansSaved ChangesAreVersioned DirtyRangeCovers
CHECK_DEADLOCK FALSE
