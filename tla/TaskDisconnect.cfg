SPECIFICATION FairSpec
CONSTANTS
  t = t
  tr = tr
  None = None
  MaxRuns = 1
  Conns = {c1}
  Leaving = {c1}
  TaskIds <- MCTaskIds
  StartIds <- MCStartIds
  RetryId <- MCRetryId
  ChCap = 1
  OutCap = 1
  MaxUnits = 3
PROPERTIES
  RunEnds
CHECK_DEADLOCK FALSE
