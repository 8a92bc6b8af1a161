CONSTANTS
  Handles = {h1}
  RecIds = {r1, r2, r3}
  NoRec = NoRec
  Requests <- MCRequests
  MaxMsgs = 3
  MaxSetups = 2
  LateMessages = TRUE
SPECIFICATION Spec
PROPERTIES QueueDrains
CHECK_DEADLOCK FALSE
