CONSTANTS
  Paths = {p, q}
  MaxEdits = 4
  None = None
SPECIFICATION Spec
INVARIANTS TypeOK ChangesInOrder PendingHasTask LabelNeverAhead
PROPERTY EventuallySent
CHECK_DEADLOCK FALSE
