\* Two goroutines, up to three writes of two bytes.
SPECIFICATION Spec
CONSTANTS
  Procs = {p1, p2}
  Size = 2
  Bytes = {0, 1}
  Writes <- MCWrites
  MaxWrites = 3
  None = None
SYMMETRY Symmetry
INVARIANTS
  TypeOK
  SnapshotsAsNewAsCount
  ReportsAreWrites
PROPERTIES
  Implements
