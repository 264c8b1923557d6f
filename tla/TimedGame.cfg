CONSTANTS
  Rows = {r1, r2}
  Images = {a}
  NoRow = NoRow
  Cells = {c1, c2}
  NoCell = NoCell
  Limit = 3
  Latency = 1
  Scrollable = {r1}
  MaxFlipBacks = 1
  MaxTime = 9
SPECIFICATION TimedSpec
SYMMETRY Symmetry
INVARIANTS NeverLostEarly DecidedOnTime
