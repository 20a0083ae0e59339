CONSTANTS
  p = p  q = q
  Paths = {p, q}
  Subscribers = {s}
  Chars <- MCChars
  Newline = "lf"
  CarriageReturn = "cr"
  Whitespace <- MCWhitespace
  Lower <- MCLower
  Keyword = "k"
  Letter = "x"
  Utf8Len <- MCOneByte
  Utf16Len <- MCOneByte
  None = None
  Contents <- MCContents
  Edits <- MCEdits
  Queries <- MCQueries
  Names <- MCNames
  Spots <- MCSpots
  MaxHistory = 2
  MaxQueue = 2
  MaxVersion <- MCMaxVersion
  MaxLen = 3
  MaxLives <- MCMaxLives
  MaxTurns = 4
SPECIFICATION Spec
INVARIANTS TypeOK BeliefsHold FoundTextReplaced MatchesInPlace DiffsExplain ToolsAgree QueueIsRecent
CHECK_DEADLOCK FALSE
