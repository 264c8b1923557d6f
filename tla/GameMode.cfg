CONSTANTS
  Rows = {r1, r2, r3, r4}
  Images = {a, b}
  NoRow = NoRow
  Cells = {c1, c2}
  NoCell = NoCell
  Limit = 2
  Scrollable = {r1, r2, r3, r4}
  MaxFlipBacks = 1
SPECIFICATION MCSpec
CHECK_DEADLOCK FALSE
INVARIANTS
  TypeOK
  FirstFlippedIsOnlyOpenCard
  PairsMatchTogether
  TimerRunsWhileUndecided
  OneRightResult
  TransparentIffMatched
  FaceUpIsAccountedFor
  PatientSeesTruth
PROPERTIES
  DecidedIsFinal
  ImplementsMemoryGame
  GameIsDecided
  WrongGuessIsTurnedBack
