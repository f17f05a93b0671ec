\* A handle acquired before a Reconnect is stored and used after it.
SPECIFICATION Spec
CONSTANTS
  Procs = {p1, p2}
  Symbols = {a, b}
  MaxLinks = 2
  Handles = {h1, h2}
  None = None
SYMMETRY Symmetry
VIEW View
INVARIANT AddressesItsSymbol
