CONSTANTS
  StartTimes <- MCStartTimes
  TickSteps <- MCTickSteps
  MaxTime = 6000000
  MaxPkts = 6
  MaxSetups = 2
  ReqBitrates <- MCReqBitrates
  ReqIntervals <- MCReqIntervals
  Ssrcs <- MCSsrcs
SPECIFICATION Spec
INVARIANT TypeOK
PROPERTY RembRampUp
\* The clock and the packet count are bounded: the publisher stops.
CHECK_DEADLOCK FALSE
