\* One session, so that TLC can check liveness (no symmetry).
SPECIFICATION FairSpec
CONSTANTS
  Sessions = {s1}
  MaxConns = 2
  OTIds = {o1}
  TOIds = {t1, t2}
  Triples = {x1}
  Shapes <- MCShapes
  OTDiscipline = "any"
  None = None
PROPERTIES
  ClosedProducersStop
  SilentConnectionsExpire
