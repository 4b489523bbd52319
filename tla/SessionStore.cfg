SPECIFICATION Spec
CONSTANTS
  Sessions = {s}
  Callers = {g1, g2}
  States <- MCStates
  None = None
  Absent = Absent
  Empty = Empty
  Torn = Torn
  DiskMayFill = TRUE
  MaxMessages = 3
  MaxTokens = 1
  MaxCompactions = 1
SYMMETRY Symmetry
INVARIANTS TypeOK LoneOperationPersists FileLagsHistory
