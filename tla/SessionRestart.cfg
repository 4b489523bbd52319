SPECIFICATION Spec
CONSTANTS
  Sessions = {s}
  Callers = {g1, g2}
  States <- MCStates
  None = None
  Absent = Absent
  Empty = Empty
  Torn = Torn
  DiskMayFill = FALSE
  MaxMessages = 1
  MaxTokens = 1
  MaxCompactions = 1
SYMMETRY Symmetry
INVARIANTS HistorySurvivesRestart
