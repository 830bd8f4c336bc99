CONSTANTS
  Requests = {r1, r2}
  Asks <- SomeAsks
  PoolSize = 1
  MaxCommands = 1
  Cli = Cli
SPECIFICATION FairSpec
INVARIANT TypeOK
INVARIANT AccessIsEarned
INVARIANT ShownKeysWork
PROPERTY RequestsEnd
CHECK_DEADLOCK FALSE
