CONSTANTS
  p = p  q = q  d = d  e = e
  short = short  long = long  binary = binary
  Paths = {p, q}
  Dirs = {d, e}
  Home = d
  DirOf <- MCDirOf
  Texts = {short, long, binary}
  Binary = {binary}
  Size <- MCSize
  MaxOpen = 1
  MaxFile = 1
  MaxMemory = 1
  MaxVersion <- MCMaxVersion
  MaxBatch = 2
  MaxWaiting = 2
  None = None
  Unknown = Unknown
SPECIFICATION Spec
INVARIANTS TypeOK ServerInStep CleanMeansOnDisk
CHECK_DEADLOCK FALSE
