CONSTANTS
  TsWrap <- MCTsWrap
  Headroom <- MCHeadroom
  ResetGap <- MCResetGap
  PhantomTs <- MCPhantomTs
  Files <- MCFilesZeroWrap

SPECIFICATION Spec

INVARIANT PlaysInCaptureOrder

CHECK_DEADLOCK FALSE
