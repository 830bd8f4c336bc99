CONSTANTS
  NumHours = 3
  Workers = 2
  MaxLines = 2
  NoEvent = NoEvent
  QueueSize = 1
  BufferMax = 1
SPECIFICATION FairSpec
INVARIANT TypeOK
INVARIANT SentIsSomewhereOnce
INVARIANT CleanExitIsComplete
PROPERTY RunEnds
PROPERTY StopEnds
PROPERTY ImplementsHandOver
CHECK_DEADLOCK FALSE
