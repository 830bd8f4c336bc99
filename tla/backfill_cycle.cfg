CONSTANTS
  NumHours = 2
  Ticks = 2
  HoursPerMonth = 1
  Archives <- Dumps
  Asked <- Ranges
  MaxRows = 2
SPECIFICATION Spec
INVARIANT TypeOK
INVARIANT CommandFillsReport
INVARIANT FilledIsNotReported
INVARIANT CountersNeverShort
INVARIANT CountersMatch
CHECK_DEADLOCK FALSE
