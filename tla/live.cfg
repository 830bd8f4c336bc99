CONSTANTS
  NoEvent = NoEvent
  QueueSize = 1
  BufferMax = 1
  PageSize = 2
  DedupWindow = 4
  MaxEvents = 5
  MaxBadBodies = 1
  MaxSends = 2
SPECIFICATION FairLiveSpec
INVARIANT LiveTypeOK
INVARIANT SentAtMostOnce
PROPERTY ShownIsCollected
PROPERTY LiveStopEnds
PROPERTY LiveImplementsHandOver
CHECK_DEADLOCK FALSE
