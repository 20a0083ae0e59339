CONSTANTS
  Paths = {p, q}
  Texts <- MCTexts
  Edits <- MCEdits
  MaxVersion = 3
  MaxCalls = 2
SPECIFICATION Spec
INVARIANTS TypeOK CallsConnect EchoesAreStale CleanMeansOnDisk
PROPERTY EventuallyInSync
CHECK_DEADLOCK FALSE
