SPECIFICATION Spec
CONSTANTS
  N = 3
  Connections = 3
  Crashes = 1
  Entries <- MCEntries
  Spare = {2}
  Sent <- MCSent
INVARIANTS TypeOK BelievedIsWatched 
CHECK_DEADLOCK FALSE
