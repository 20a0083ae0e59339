CONSTANTS
  Resources = {a, b, c, d}
  Inputs <- MCInputs
  SizeOf <- MCSizeOf
  MaxBytes = 4
  MaxAccesses = 6
SPECIFICATION Spec
SYMMETRY MCSymmetry
INVARIANTS TypeOK BytesAccounted WithinLimit RecencyUnique ServedFresh
PROPERTY EvictsOldest
CHECK_DEADLOCK FALSE
