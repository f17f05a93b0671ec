\* Three sockets; at most four groups in a multi-memory read, batches of three tags (two unconnected).
\* A listing: three pages, batches of two types, three errors in a row, two of them of GAS.
SPECIFICATION BrowseSpec
CONSTANTS
  MaxLinks = 3
  Reads <- MCReads
  Writes <- MCWrites
  MaxMultiAreas = 4
  BatchConnected = 3
  BatchSingle = 2
  None = None
  Plcs <- MCPlcs
  MaxPages = 3
  TypeBatch = 2
  MaxErrors = 3
  MaxGasErrors = 2
  NoCount = 6
  LegacyLimit = 4
INVARIANTS
  TypeOK
  ReadsExact
  WritesLand
  LinksAccounted
  TagsFound
CHECK_DEADLOCK FALSE
