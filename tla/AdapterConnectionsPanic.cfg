\* A connected explicit message whose connection goes away before the reply.
SPECIFICATION Spec
CONSTANTS
  Sessions = {s1}
  MaxConns = 2
  OTIds = {o1}
  TOIds = {t1, t2}
  Triples = {x1}
  Shapes <- MCShapes
  OTDiscipline = "afterClose"
  None = None
INVARIANT
  NoPanicWhileServing
