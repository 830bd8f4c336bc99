CONSTANTS
  Members = {m1, m2}
  Partitions = {p1, p2}
  Classes = {"valid", "poison"}
  NoMember = NoMember
  BatchMax = 2
  BackoffInitial = 1
  BackoffMax = 3
  MaxOffset = 1
  MaxTrim = 0
  MaxFaults = 1
SPECIFICATION FairSpec
PROPERTY EventuallyHandled
PROPERTY ShutdownCompletes
CHECK_DEADLOCK FALSE
