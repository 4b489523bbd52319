CONSTANTS
  None = None
  c1 = c1
  c2 = c2
  read = read
  grep = grep
  IDs = {c1, c2}
  Names = {read, grep}
  MaxRetries = 2
  Providers = {"claude", "gemini", "copilot", "azure"}
  Cap = 1
  MaxTurns = 2
  Replies <- MCReplies
SPECIFICATION FairSpec
INVARIANTS
  TypeOK
  
  
  OnlyACancelStrands
PROPERTIES
  
  ReaderEndsOrIsStuck
  RunEnds
CHECK_DEADLOCK FALSE
