\* Scanners reuse an O->T ID only after the connection that had it was closed.
SPECIFICATION Spec
CONSTANTS
  Sessions = {s1}
  MaxConns = 2
  OTIds = {o1}
  TOIds = {t1, t2}
  Triples = {x1}
  Shapes <- MCShapes
  OTDiscipline = "afterClose"
  None = None
INVARIANT
  ActiveConnectionsTracked
