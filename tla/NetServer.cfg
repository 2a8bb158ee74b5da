SPECIFICATION FairSpec
CONSTANTS
  a1 = a1  a2 = a2
  Null = Null
  Automate <- MCAutomate
  Order <- MCOrder
  Connections = 3
  Data = 2
INVARIANTS TypeOK NoAutomateTwice ListIsRight  
 
CHECK_DEADLOCK FALSE
