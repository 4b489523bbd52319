CONSTANTS
  None = None
  boot0 = boot0
  x1 = x1
  l1 = l1
  l2 = l2
  git = git
  Bootstrap = boot0
  Callers <- MCCallers
  Links <- MCLinks
  Essentials <- MCEssentials
  MaxAttempts = 3
  MaxStarts = 2
SPECIFICATION FairSpec
CHECK_DEADLOCK FALSE
INVARIANTS
  
  ReadyMeansInstalled
PROPERTIES
  LinkNeverVanishes
  BootstrapEnds
