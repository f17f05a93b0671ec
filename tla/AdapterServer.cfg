SPECIFICATION FairSpec
CONSTANTS
  Clients = {c1, c2}
  Handles = {h1, h2, h3}
  NoClient = NoClient
INVARIANTS
  TypeOK
  ReturnedMeansWaited
  HandlesOwned
  StaleEntriesBounded
PROPERTIES
  CancelEndsServe
  OnlyClientsOutliveClose
