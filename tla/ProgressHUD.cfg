CONSTANTS
  Views = {v1, v2, v3}
  Nil = Nil
  MaxRequests = 2
SPECIFICATION FairSpec
INVARIANTS
  TypeOK
  UpIsAwaited
PROPERTIES
  ImplementsLoader
