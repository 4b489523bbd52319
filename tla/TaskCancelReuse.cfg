SPECIFICATION Spec
CONSTANTS
  t = t
  tr = tr
  None = None
  MaxRuns = 2
  Conns = {c1}
  Leaving = {}
  TaskIds <- MCTaskIds
  StartIds <- MCStartIds
  RetryId <- MCRetryId
  ChCap = 1
  OutCap = 1
  MaxUnits = 1
INVARIANTS
  CancelHitsItsOwnRun
CHECK_DEADLOCK FALSE
