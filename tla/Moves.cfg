SPECIFICATION FairSpec
CONSTANTS
  Boxes = {b1}
  Movers = {b1}
  Turns = {t1, t2}
  NoBox = NoBox
  Parallel = 1
  MaxMail = 1
  MaxFaults = 1
INVARIANTS LastRoundComplete DoneIsOver OneFiller
PROPERTIES MoveEnds
