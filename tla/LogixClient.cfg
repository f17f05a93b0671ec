SPECIFICATION Spec
CONSTANTS
  Tags <- MCTags
  Templates <- MCTemplates
  Symbols <- MCSymbols
  Reads <- MCReads
  Writes <- MCWrites
  TagInfos <- MCTagInfos
  BatchLarge = 3
  BatchSmall = 2
  MaxPages = 3
  MaxReplies = 12
  MaxDepth = 10
  CallOn = FALSE
  None = None
INVARIANTS TypeOK CallsTruthful TagsListedOnce
CHECK_DEADLOCK FALSE
