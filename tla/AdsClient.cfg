\* Two goroutines, two symbols, a link and one more after it, two handle numbers.
SPECIFICATION Spec
CONSTANTS
  Procs = {p1, p2}
  Symbols = {a, b}
  MaxLinks = 2
  Handles = {h1, h2}
  None = None
SYMMETRY Symmetry
VIEW View
INVARIANTS
  TypeOK
  AddressesItsSymbolApart
  CachedHandlesCurrent
  OneRequestPerLink
  LostReadsReported
  NoLinkLeaks
  NoPanicApart
