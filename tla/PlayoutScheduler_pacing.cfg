CONSTANTS
  AFrames <- MCAFrames
  VFrames <- MCVFrames
  AudioPt <- MCAudioPt
  Overshoot <- MCOvershoot
  Delay <- MCDelay
  OpenMayFail = TRUE

SPECIFICATION Spec

INVARIANT TypeOK
INVARIANT NotEarly
INVARIANT CancelWithinRound
PROPERTY CompletionOnceOpen

\* The playout thread returns: after "done" nothing more happens.
CHECK_DEADLOCK FALSE
