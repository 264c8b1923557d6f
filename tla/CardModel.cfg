CONSTANTS
  Pairs = 3
  NumImages = 4
SPECIFICATION FairSpec
CHECK_DEADLOCK FALSE
INVARIANTS
  TypeOK
  EveryCardOnce
  ReturnsDeck
PROPERTIES
  Terminates
