\* Two explicit-message sessions, two connections, safety.
SPECIFICATION Spec
CONSTANTS
  Sessions = {s1, s2}
  MaxConns = 2
  OTIds = {o1, o2}
  TOIds = {t1, t2}
  Triples = {x1}
  Shapes <- MCShapes
  OTDiscipline = "any"
  None = None
SYMMETRY Symmetry
INVARIANTS
  TypeOK
  ClosedNotIndexed
  IndexesAgree
  LostOnlyByOTReuse
  ExitedMeansClosed
  AtMostOneStaleSend
  AtMostOneStaleDelivery
