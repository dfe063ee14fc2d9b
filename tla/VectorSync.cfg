CONSTANTS
  p1 = p1
  p2 = p2
  p3 = p3
  x1 = x1
  x2 = x2
  i1 = i1
  i2 = i2
  w1 = w1
  w2 = w2
  None = None
  Props <- MCProps
  Texts <- MCTexts
  Workers <- MCWorkers
  Writers <- MCWriters
  Tables <- MCTables
  BatchSize = 2
  MaxTime = 4
SPECIFICATION Spec
INVARIANTS TypeOK BehindTheWatermark VectorOfTheHash
SYMMETRY MCAlike
CHECK_DEADLOCK FALSE
