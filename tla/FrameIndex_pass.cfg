CONSTANTS
  TsWrap <- MCTsWrap
  Headroom <- MCHeadroom
  ResetGap <- MCResetGap
  PhantomTs <- MCPhantomTs
  Files <- MCFilesPass

SPECIFICATION Spec

INVARIANT TypeOK
INVARIANT IndexOrdered
INVARIANT PlaysInCaptureOrder

\* get_frames returns: a scan that is done or failed has no next step.
CHECK_DEADLOCK FALSE
