CONSTANTS
  Request = {r1, r2, r3, r4}
  Limit = 2
  Window = 4
  Second = 2
  Ahead = 1
  Late = 1
  MaxTime = 8
SPECIFICATION Spec
INVARIANT TypeOK
INVARIANT LimitHolds
INVARIANT RetryAfterIsHonest
SYMMETRY Symmetry
CHECK_DEADLOCK FALSE
