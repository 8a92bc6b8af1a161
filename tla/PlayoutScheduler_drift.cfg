CONSTANTS
  AFrames <- MCAFramesNone
  VFrames <- MCVFramesPause
  AudioPt <- MCAudioPt
  Overshoot <- MCOvershoot
  Delay <- MCDelayNone
  OpenMayFail = FALSE

SPECIFICATION Spec

INVARIANT AnchorExact

CHECK_DEADLOCK FALSE
