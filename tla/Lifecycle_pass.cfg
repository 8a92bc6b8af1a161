CONSTANTS
  Handles = {h1}
  RecIds = {r1, r2, r3}
  NoRec = NoRec
  Requests <- MCRequests
  MaxMsgs = 2
  MaxSetups = 2
  LateMessages = FALSE
SPECIFICATION Spec
INVARIANTS TypeOK SessionRefExact
PROPERTIES QueueDrains SessionsFreed ShutdownCompletes 
CHECK_DEADLOCK FALSE
