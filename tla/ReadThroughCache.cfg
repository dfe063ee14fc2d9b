CONSTANTS
  r1 = r1
  r2 = r2
  w1 = w1
  w2 = w2
  None = None
  Readers <- MCReaders
  Writers <- MCWriters
  Pages <- MCPages
  Edits <- MCEdits
  MaxEdits <- MCMaxEdits
SPECIFICATION Spec
INVARIANTS TypeOK StaleForACause
PROPERTY Converges
