SPECIFICATION LedgersSpec
CONSTANTS
  Stores = {s1, s2}
  Lone = s1
  Ids = {d1, d2}
  NoId = NoId
  Free = Free
  MaxRows = 4
  MaxMigrations = 1
  MaxCrashes = 2
  TwoRows = 3
  TwoCrashes = 1
  Docs = {doc1, doc2}
  NoDoc = NoDoc
  MaxRevs = 3
  MaxKills = 2
  Appenders = {a1, a2}
  Records = {e1, e2}
  Malformed = Malformed
  Unheld = Unheld
  MaxDeaths = 2
  MaxRetries = 3
  Rows = {1, 2, 3}
INVARIANTS
  TypesOK
  LogIsSound
  VerifiedIsComplete
  RevisionsFaithful
  EvidenceFailsClosed
PROPERTIES
  CallsReturn
CHECK_DEADLOCK FALSE
