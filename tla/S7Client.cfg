\* Two goroutines, the first link and two more, a PDU of 240 bytes.
SPECIFICATION Spec
CONSTANTS
  Procs = {p1, p2}
  MaxLinks = 3
  PDUSizes = {240}
  Reads <- MCReads
  Writes <- MCWrites
  Declared = 10
  MaxShort = 1
  None = None
INVARIANTS
  TypeOK
  ReadsExact
  WritesInside
  LinksAccounted
PROPERTY CallsEnd
