CONSTANTS
  AFrames <- MCAFrames
  VFrames <- MCVFrames
  AudioPt <- MCAudioPt
  Overshoot <- MCOvershoot
  Delay <- MCDelay
  OpenMayFail = TRUE

SPECIFICATION Spec

PROPERTY Completion

CHECK_DEADLOCK FALSE
