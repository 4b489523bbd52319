CONSTANTS
  None = None
  t1 = t1
  t2 = t2
  x = x
  y = y
  Roots <- MCRoots
  Asked <- MCAsked
  Places <- MCPlaces
  Contents <- MCContents
  MaxRounds = 1
  MaxCalls <- MCMaxCalls
SPECIFICATION FairSpec
CHECK_DEADLOCK FALSE
INVARIANTS
  TypeOK
  OneCallAfterCancel
  OwnWorkIsKept
  
PROPERTIES
  
  
  SubagentEnds
