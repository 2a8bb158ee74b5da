SPECIFICATION FairSpec
CONSTANTS
  Threads = 3
  Datagrams = 1
  Sizes = {1}
INVARIANTS TypeOK  
 
CHECK_DEADLOCK FALSE
