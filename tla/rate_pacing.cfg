CONSTANTS
  Quota = 3
  Window = 6
  PollInterval = 2
  RetryInterval = 1
  ResetMargin = 1
  Skew = 1
  Latency = 1
  MaxTime = 16
  MaxFaults = 2
SPECIFICATION PacingSpec
INVARIANT RefusedOnlyWhenBlind
INVARIANT NoLongPause
CHECK_DEADLOCK FALSE
