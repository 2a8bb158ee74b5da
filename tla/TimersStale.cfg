SPECIFICATION Spec
CONSTANTS
  b1 = b1  b2 = b2  b3 = b3  b4 = b4
  NoBuffer = NoBuffer
  Timer <- MCTimer
  Buffer <- MCBuffer
  Queue <- MCQueue
  Count <- MCCount
  FsmResolution = 1000
  KernelResolution = 1000
  Word = 8
  ResetsExpired = FALSE
INVARIANT StopMarksOwnTimer
