CONSTANTS
  Members = {m1, m2}
  Partitions = {p1}
  Classes = {"valid", "poison", "unstorable", "badHeader"}
  NoMember = NoMember
  BatchMax = 2
  BackoffInitial = 1
  BackoffMax = 3
  MaxOffset = 3
  MaxTrim = 2
  MaxFaults = 2
SPECIFICATION Spec
INVARIANT TypeOK
INVARIANT CommittedIsHandled
INVARIANT ReadIsHandledOrInHand
INVARIANT BetweenBatchesAllCommitted
INVARIANT DuplicatesOnlyExposed
PROPERTY CommitNeverRegresses
PROPERTY ImplementsAtLeastOnce
SYMMETRY Symmetry
CHECK_DEADLOCK FALSE
