CONSTANTS
  Queries = {q}
  MaxPuts = 1
  MaxFaults = 2
  MaxWire = 2
  MaxStale = 1
SPECIFICATION FairSpec
PROPERTIES
  CompletionCalled
