SPECIFICATION FairSpec
CONSTANTS
  Threshold = 3
  CheckEvery = 1
  RepeatAfter = 3
  ClockRepeat = 3
  WatchClock = TRUE
  ReadTicks = 1
  Lag = 1
  Faults = {"crash"}
PROPERTY ReturnAlwaysReported
