SPECIFICATION FairSpec
CONSTANTS
  n1 = n1  n2 = n2  a1 = a1  a2 = a2
  NoData = NoData  Blank = Blank  NoFile = NoFile
  ServerReply <- MCServerReply
  Name <- MCName
  Files <- NoTable
  MaxInputs = 1
  MaxSegments = 1
PROPERTY DisconnectAfterReply
CHECK_DEADLOCK FALSE
