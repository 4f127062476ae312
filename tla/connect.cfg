SPECIFICATION FairSpec
CONSTANTS
  MaxPlug = 3
  MaxConn = 4
  Restart = FALSE
  Faults = TRUE
INVARIANTS TypeOK  
  
CHECK_DEADLOCK FALSE
