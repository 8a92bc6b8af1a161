CONSTANTS
  TsWrap <- MCTsWrap
  Headroom <- MCHeadroom
  ResetGap <- MCResetGap
  PhantomTs <- MCPhantomTs
  Files <- MCFilesPhantom

SPECIFICATION Spec

INVARIANT PlaysInCaptureOrder

CHECK_DEADLOCK FALSE
