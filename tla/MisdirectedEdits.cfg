CONSTANTS
  Paths = {p, q}
  Texts <- MCTexts
  Edits <- MCTwoCursors
  MaxVersion = 3
  MaxCalls = 2
SPECIFICATION Spec
INVARIANT EditsStayHome
CHECK_DEADLOCK FALSE
