\* A six-bit counter that wraps several times, frames of three microseconds of
\* three ticks each, and delays of more than three frames.
CONSTANTS
  WordSize = 64
  UsecGoal = 3
  TscPerUsec = 3
  Scale = 64
  SleepEnable = TRUE
  Starts = {0, 17, 60}
  MaxDelay = 30
  MaxFrames = 5
SPECIFICATION Spec
INVARIANTS TypeOK RateBounded
PROPERTY ImplementsMetronome
CHECK_DEADLOCK FALSE
