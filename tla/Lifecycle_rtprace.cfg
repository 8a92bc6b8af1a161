CONSTANTS
  Handles = {h1}
  RecIds = {r1, r2, r3}
  NoRec = NoRec
  Requests <- MCRequests
  MaxMsgs = 3
  MaxSetups = 2
  LateMessages = FALSE
SPECIFICATION Spec
INVARIANTS RecorderAliveWhenSaved
CHECK_DEADLOCK FALSE
