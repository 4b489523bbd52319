SPECIFICATION Spec
CONSTANTS
  MaxRounds = 2
  MaxTokens = 13
  Reserve = 4
  Threshold = 10
  ProtectRecent = 3
  SummarySize = 2
  TextSizes <- MCTextSizes
  ResultSizes <- MCResultSizes
  MaxCalls = 2
  MaxRuns = 2
INVARIANTS TypeOK UsedIsTheSum RequestFits   
CHECK_DEADLOCK FALSE
