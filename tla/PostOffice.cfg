SPECIFICATION FairSpec
CONSTANTS
  b1 = b1  b2 = b2  b3 = b3  tmr = tmr
  System = sys
  NoBuffer = NoBuffer
  SemMax = 3
  Mbx <- MCMbx
  Buffer <- MCBuffer
  Poster <- MCPoster
INVARIANTS TypeOK Ownership NoLostWakeup
PROPERTIES LiveMessageIsHandled ImplementsMailQueue EventuallyFetched
