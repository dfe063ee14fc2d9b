CONSTANTS
  j1 = j1
  j2 = j2
  w1 = w1
  w2 = w2
  None = None
  Jobs <- MCJobs
  Workers <- MCWorkers
SPECIFICATION LabSpec
INVARIANTS LabTypeOK StuckForACause
PROPERTY OnlyTheStartGoesBack
SYMMETRY MCAlike
CHECK_DEADLOCK FALSE
