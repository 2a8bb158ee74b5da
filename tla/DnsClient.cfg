SPECIFICATION FairSpec
CONSTANTS
  n1 = n1  n2 = n2  a1 = a1  a2 = a2
  NoData = NoData  Blank = Blank  NoFile = NoFile
  ServerReply <- MCServerReply
  Name <- MCName
  Files <- WithTable
  MaxInputs = 3
  MaxSegments = 2
INVARIANTS TypeOK UserInStep TimerOnlyWhileWaiting OneConnection 
PROPERTY AnswerReachesUser
CHECK_DEADLOCK FALSE
