SPECIFICATION Spec
CONSTANTS
  Procs = {p1, p2}
  Readers = {p1}
  Files <- MCFiles
  Words <- MCWords
  Rows <- MCRows
  Catalogs = {"1747", "1761", "1766", "1785"}
  Reads <- MCReads
  Writes <- MCWrites
  BulkBytes = 236
  Rooms = {60, 164}
  CallOn = FALSE
  None = None
INVARIANTS CallsTruthful
CHECK_DEADLOCK FALSE
