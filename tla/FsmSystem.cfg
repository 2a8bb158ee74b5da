SPECIFICATION FairSpec
CONSTANTS
  a0 = a0  a1 = a1  b0 = b0
  NoAutomate = NoAutomate
  NumberOfAutomates = 2
  NumberOfMbx = 2
  Automate <- MCAutomate
  TypeOf <- MCTypeOf
  Objects <- MCObjects
  UseFreeList <- MCUseFreeList
  Buffers = 2
  SemMax = 3
INVARIANTS TypeOK EveryBufferOnce CallsAreExclusive StopIsPrompt
PROPERTIES DeliveredToAddressee 
CHECK_DEADLOCK FALSE
