CONSTANTS
  Queries = {q}
  MaxPuts = 2
  MaxFaults = 3
  MaxWire = 2
  MaxStale = 1
SPECIFICATION FairSpec
INVARIANTS
  TypeOK
  RetryIffDown
  Assertions
  UnackedListensCounted
  CalledOnce
  AcknowledgedStays
PROPERTIES
  PutSettles
