SPECIFICATION Spec
CONSTANTS
  s1 = s1  l1 = l1  l2 = l2  l3 = l3
  Debug = FALSE
  NoBuffer = NoBuffer  NoParam = NoParam  NoList = NoList  Unknown = Unknown
  Stock <- MCStock
  Codings <- MCCodings
  Param <- MCParam
  MaxMail = 1
  MaxParams = 2
SYMMETRY MCSymmetry
INVARIANTS TypeOK WellFormed EveryBufferOnce EnoughBuffers
 
CHECK_DEADLOCK FALSE
